---- MODULE Spec2Model ----
(***************************************************************************)
(* A model of quvox/task_organizer.                                        *)
(*                                                                         *)
(*   tools/task_master.py  TaskMaster: the task directories, the worker    *)
(*                         registry, the main loop and its helper threads  *)
(*   tools/task_worker.py  TaskWorker (protocol loop) and                  *)
(*                         ClaudeManagerThread (agent supervisor)          *)
(*                                                                         *)
(* Seven specifications share the definitions below:                       *)
(*   Spec      the Master, with peers that keep to the protocol but can be *)
(*             slow, silent or gone as its environment                     *)
(*   OpenSpec  the Master with a peer that can write anything              *)
(*   LiveSpec  the Master with reliable peers, under fair scheduling       *)
(*   WSpec     one Worker process, with the bytes arriving from the Master *)
(*             and the agent's outcomes as its environment                 *)
(*   WFrameSpec  the Worker's protocol loop alone, with longer reads       *)
(*   QSpec     the agent supervisor's handling of one request, with the    *)
(*             agent's event streams as its environment                    *)
(*   SplitSpec the Master's fallback splitter, on characters               *)
(*                                                                         *)
(* Time.  time.time() is modelled by a relative clock: every stored        *)
(* timestamp T is kept as T - now, in whole seconds.  When d seconds pass, *)
(* d is subtracted from every stored timestamp; the test current_time > T  *)
(* reads 0 > T.  A stored timestamp saturates at -1 (past), which no       *)
(* comparison in the code can tell from an older one.                      *)
(*                                                                         *)
(* Bytes.  A byte stream is a sequence of tokens: the text of one JSON     *)
(* object (json.dumps of a message), the two pieces of such a text cut in  *)
(* the middle, one newline character, or text that is no JSON object.      *)
(***************************************************************************)
EXTENDS Integers, Sequences, FiniteSets, Bags, TLC

(***************************************************************************)
(* Bounds of the model (not program constants).                            *)
(***************************************************************************)
\* random.randint(1000, 9999) draws from RandMin .. RandMin + RandSpan - 1.
RandSpan == 2
\* Internal messages queued for the main loop at one time.
MaxQueue == 2
\* Unread messages a peer may have in flight on one connection.
MaxInbuf == 1
\* Messages of the Master one recv of the Worker may return at once.
WMaxInbuf == 2
\* Outstanding RequestInfo entries of one worker record.
MaxReqInfos == 1
\* Helper threads (timeout monitors, disconnect threads) alive at one time.
MaxThreads == 2
\* The same two bounds for LiveSpec, which no run of it reaches.
LiveMaxReqInfos == 2
LiveMaxThreads == 4
\* Events the agent yields in one attempt.
MaxEvents == 2
\* Characters of a string value, and objects written back-to-back in one line.
MaxStr == 2
MaxObjs == 2

(***************************************************************************)
(* Program constants.                                                      *)
(***************************************************************************)
AckTimeout == 3
TimerInterval == 10
RandMin == 1000
\* max_retries of _execute_task_async
MaxRetries == 3

Files == {"a.txt", "b.txt"}
FileSeq == <<"a.txt", "b.txt">>
WorkerIds == {"55000", "55001"}
WorkerSeq == <<"55000", "55001">>
Conns == {"c1", "c2"}
Dirs == {"pending", "working", "done", "failed"}
ReqNums == RandMin .. (RandMin + RandSpan - 1)

(***************************************************************************)
(* Messages and the frame codec.                                           *)
(***************************************************************************)
\* A message dict; req_id "" stands for a dict without that key.
Msg(t, m, r) == [type |-> t, msg |-> m, req_id |-> r]
NoMsg == Msg("", "", "")

\* f"check_{random.randint(1000, 9999)}" and f"task_{...}"
ReqId(kind, n) == kind \o "_" \o ToString(n)
CheckId(n) == ReqId("check", n)
TaskId(n) == ReqId("task", n)

\* The text of one object whose string values hold no brace.
Obj(m) == [tok |-> "obj", m |-> m]
NL == [tok |-> "nl", m |-> NoMsg]
\* The text of Obj(m) cut somewhere after its '{' and before its '}'.
FirstHalf(m) == [tok |-> "head", m |-> m]
SecondHalf(m) == [tok |-> "tail", m |-> m]
\* Text that is not JSON and has no brace in it: json.loads raises
\* JSONDecodeError.
Junk == [tok |-> "junk", m |-> NoMsg]
\* The JSON text of a value that is no object and is not falsy, as [1].
Value == [tok |-> "value", m |-> NoMsg]
\* Brackets nested deeper than the interpreter's recursion limit, which fit
\* in one read of 4096 bytes: json.loads raises RecursionError.
Deep == [tok |-> "deep", m |-> NoMsg]
\* What recv returns once the peer has closed: b'' (no token of a stream).
EOF == <<[tok |-> "eof", m |-> NoMsg]>>

\* TaskMaster writes json.dumps(message).encode('utf-8'): no newline.
MasterEncode(m) == <<Obj(m)>>
\* TaskWorker writes json.dumps(message) + '\n'.
WorkerEncode(m) == <<Obj(m), NL>>

RECURSIVE Strip(_)
\* str.strip(): the text without the whitespace at its two ends
Strip(text) ==
    IF text # <<>> /\ Head(text).tok = "nl" THEN Strip(Tail(text))
    ELSE IF text # <<>> /\ text[Len(text)].tok = "nl"
    THEN Strip(SubSeq(text, 1, Len(text) - 1))
    ELSE text

RECURSIVE SplitLines(_)
\* str.split('\n'): the token runs between newlines (the last may be empty).
SplitLines(data) ==
    IF \A i \in 1..Len(data) : data[i].tok # "nl" THEN <<data>>
    ELSE LET k == CHOOSE i \in 1..Len(data) :
                    /\ data[i].tok = "nl"
                    /\ \A j \in 1..(i - 1) : data[j].tok # "nl"
         IN  <<SubSeq(data, 1, k - 1)>> \o SplitLines(SubSeq(data, k + 1, Len(data)))

\* brace_count of _split_concatenated_json after the text of one token
BraceCount(count, token) ==
    CASE token.tok = "head" -> count + 1
      [] token.tok = "tail" -> count - 1
      [] OTHER -> count

RECURSIVE SplitWalk(_, _, _)
\* the for loop of _split_concatenated_json: the text so far is cut where a
\* '}' brings brace_count to 0; what is left at the end is one more part
SplitWalk(line, brace_count, current_json) ==
    IF line = <<>> THEN (IF current_json = <<>> THEN <<>> ELSE <<current_json>>)
    ELSE LET token == Head(line)
             count == BraceCount(brace_count, token)
         IN  IF token.tok \in {"obj", "tail"} /\ count = 0
             THEN <<Append(current_json, token)>> \o SplitWalk(Tail(line), 0, <<>>)
             ELSE SplitWalk(Tail(line), count, Append(current_json, token))

\* TaskMaster._split_concatenated_json
SplitConcatenatedJson(line) == SplitWalk(line, 0, <<>>)

\* json.loads of a text without whitespace at its ends returns a dict: the
\* text is exactly one object.
JsonLoadsOk(text) == Len(text) = 1 /\ text[1].tok = "obj"
\* json.loads returns something that is no dict
JsonLoadsValue(text) == Len(text) = 1 /\ text[1].tok = "value"
\* json.loads raises RecursionError, which is no JSONDecodeError
JsonLoadsRecursion(text) == Len(text) = 1 /\ text[1].tok = "deep"

\* messages.append(json.loads(text)); a parsed value is kept as its token
Parsed(text) == IF JsonLoadsOk(text) \/ JsonLoadsValue(text) THEN <<text[1]>> ELSE <<>>

RECURSIVE ParseParts(_)
\* the loop over json_parts; an exception other than JSONDecodeError ends it
ParseParts(parts) ==
    IF parts = <<>> \/ JsonLoadsRecursion(Head(parts)) THEN <<>>
    ELSE Parsed(Head(parts)) \o ParseParts(Tail(parts))

RECURSIVE ParseLines(_)
ParseLines(lines) ==
    IF lines = <<>> THEN <<>>
    ELSE LET line == Head(lines)
         IN  (IF line = <<>> THEN <<>>
              ELSE IF JsonLoadsOk(line) \/ JsonLoadsValue(line) THEN Parsed(line)
              ELSE ParseParts(SplitConcatenatedJson(line)))
             \o ParseLines(Tail(lines))

\* TaskMaster._parse_json_messages returns: the parsed values, in order
ParseJsonMessages(data) == ParseLines(SplitLines(Strip(data)))

\* TaskMaster._parse_json_messages raises: json.loads(line) raises
\* RecursionError, which its except clause does not catch
ParseRaises(data) ==
    LET lines == SplitLines(Strip(data))
    IN  \E i \in 1..Len(lines) : JsonLoadsRecursion(lines[i])

(***************************************************************************)
(* The task directories: a function from the directories that exist to the *)
(* set of file names in each.  A path is a directory and a name; the name  *)
(* "" is the directory itself (pathlib: Path(d) / "" = Path(d)).           *)
(***************************************************************************)
Glob(td, d) == IF d \in DOMAIN td THEN td[d] ELSE {}

PathExists(td, d, name) ==
    /\ d \in DOMAIN td
    /\ name # "" => name \in td[d]

\* Path.rename (rename(2)) succeeds
RenameOk(td, d1, d2, name) ==
    /\ PathExists(td, d1, name)
    /\ IF name = "" THEN (d2 \in DOMAIN td => td[d2] = {})
                    ELSE d2 \in DOMAIN td

\* A rename that leaves the source in place.
RenameCopy(td, d1, d2, name) ==
    IF name = ""
    THEN [d \in DOMAIN td \cup {d2} |-> IF d = d2 THEN td[d1] ELSE td[d]]
    ELSE [td EXCEPT ![d2] = @ \cup {name}]

\* A rename that replaces what the target directory held.
RenameReplaces(td, d1, d2, name) ==
    IF name = ""
    THEN [d \in (DOMAIN td \ {d1}) \cup {d2} |-> IF d = d2 THEN td[d1] ELSE td[d]]
    ELSE [td EXCEPT ![d1] = @ \ {name}, ![d2] = {name}]

\* Path.rename: the tree after a successful rename
Rename(td, d1, d2, name) ==
    IF name = ""
    THEN [d \in (DOMAIN td \ {d1}) \cup {d2} |-> IF d = d2 THEN td[d1] ELSE td[d]]
    ELSE [td EXCEPT ![d1] = @ \ {name}, ![d2] = @ \cup {name}]

(***************************************************************************)
(* State.                                                                  *)
(***************************************************************************)
VARIABLES
    tasks_dir,      \* .tasks/: directory -> file names
    workers,        \* TaskMaster.workers: worker_id -> WorkerObject
    message_queue,  \* TaskMaster.message_queue
    running,        \* TaskMaster.running
    mpc,            \* where the main loop stands
    conn,           \* the TCP connections, Master side
    monitors,       \* _timeout_monitor threads asleep: bag of [req_id, left]
    disc_threads,   \* _disconnect_worker threads started and not yet run: bag of worker_id
    timer_left      \* seconds until _timer_thread wakes

mvars == <<tasks_dir, workers, message_queue, running, mpc, conn, monitors,
           disc_threads, timer_left>>

\* The Worker's state.
VARIABLES
    w_running,          \* TaskWorker.running
    wpc,                \* where TaskWorker._main_loop stands
    recv_buffer,        \* TaskWorker._recv_buffer
    last_request_time,  \* TaskWorker.last_request_time is set
    result_queue,       \* TaskWorker.result_queue
    cm_running,         \* ClaudeManagerThread.running
    cm_message_queue,   \* ClaudeManagerThread.message_queue
    task_threads,       \* the task-<req_id> threads alive
    link,               \* the worker's socket: "up", or "down" once it is broken or closed
    unsent,             \* the messages the peer has yet to write
    sent,               \* log: what the worker has written, in order
    taken,              \* log: the frames recv has returned
    handed,             \* log: the req_ids handed to the supervisor
    outbox,             \* log: the results put on result_queue, in order
    raised              \* log: the exceptions raised, as <<req_id, where>>

wvars == <<w_running, wpc, recv_buffer, last_request_time, result_queue, cm_running,
           cm_message_queue, task_threads, link, unsent, sent, taken, handed, outbox,
           raised>>

\* One request in the hands of a task-<req_id> thread, and one call of the
\* Master's fallback splitter.
VARIABLES
    q_agent,        \* what the agent serves: attempt -> [events, ending]
    q_pc,           \* where _execute_task_async stands
    q_retry_count,    \* retry_count of _execute_task_async
    q_result_type,    \* result_type of _execute_task_async
    q_calls,        \* calls of _execute_task made so far
    q_reported,     \* the type handed to result_callback ("" before)
    sp_objs,        \* the string values of the objects written to the Master
    sp_parts        \* what _split_concatenated_json returned

qvars == <<q_agent, q_pc, q_retry_count, q_result_type, q_calls, q_reported, sp_objs, sp_parts>>

\* RequestInfo(request_id, timeout_time)
RequestInfo(r, t) == [request_id |-> r, timeout_time |-> t]

\* WorkerObject(socket, worker_id, status="idle"), current_task_file "" and no request_infos
WorkerObject(c) ==
    [socket |-> c, status |-> "idle", current_task_file |-> "", request_infos |-> <<>>]

\* A connection nobody has opened yet.  st is the socket's state on the
\* Master's side, wire the bytes of the Master's latest write; peer_closed
\* (the peer is gone), owes (the peer has acknowledged a REQUEST and not yet
\* reported its result) and cut (the message of which the Master has read the
\* first piece only) are the peer's side.
FreeConn ==
    [st |-> "free", peer_closed |-> FALSE, owes |-> FALSE, wire |-> <<>>, cut |-> NoMsg]
\* A socket the Master has closed: nothing is read from it or written to it.
ClosedConn ==
    [st |-> "closed", peer_closed |-> FALSE, owes |-> FALSE, wire |-> <<>>, cut |-> NoMsg]

\* The Master's state as one value, for the handlers that call one another;
\* batch is the list _get_messages returned, while the main loop works on it.
MState ==
    [tasks_dir |-> tasks_dir, workers |-> workers, message_queue |-> message_queue,
     running |-> running, conn |-> conn, monitors |-> monitors,
     disc_threads |-> disc_threads, batch |-> <<>>]

Commit(s) ==
    /\ tasks_dir' = s.tasks_dir
    /\ workers' = s.workers
    /\ message_queue' = s.message_queue
    /\ running' = s.running
    /\ conn' = s.conn
    /\ monitors' = s.monitors
    /\ disc_threads' = s.disc_threads

\* The model's bounds, as a guard on every step that grows something.
Limits == [threads |-> MaxThreads, infos |-> MaxReqInfos]
LiveLimits == [threads |-> LiveMaxThreads, infos |-> LiveMaxReqInfos]

Bounded(s, lim) ==
    /\ Len(s.message_queue) <= MaxQueue
    /\ BagCardinality(s.monitors) <= lim.threads
    /\ BagCardinality(s.disc_threads) <= lim.threads
    /\ \A w \in DOMAIN s.workers : Len(s.workers[w].request_infos) <= lim.infos

Rank(w) == CHOOSE i \in 1..Len(WorkerSeq) : WorkerSeq[i] = w

\* The registry in iteration order.
WorkerList(ws) == SelectSeq(WorkerSeq, LAMBDA w : w \in DOMAIN ws)

\* list(dir.glob("*")) in directory order.
GlobList(td, d) == SelectSeq(FileSeq, LAMBDA f : f \in Glob(td, d))

\* TaskMaster._add_message
AddMessage(s, t, m) ==
    [s EXCEPT !.message_queue = Append(@, [type |-> t, msg |-> m])]

\* socket.send on connection c can raise: the Master has closed the socket.
SendMustFail(s, c) == s.conn[c].st = "closed"
\* socket.send on connection c may raise: the peer can have closed or died.
SendMayFail(s, c) == TRUE
\* socket.send on connection c has raised and the record stays as it is: the
\* peer is gone, which the next recv will find
SendFailed(s, c) ==
    IF s.conn[c].st = "closed" THEN s ELSE [s EXCEPT !.conn[c].peer_closed = TRUE]

\* socket.send succeeded: wire holds the bytes of the latest write on the
\* connection (the peer has read what was written before).
Send(s, c, frame) == [s EXCEPT !.conn[c].wire = frame]

\* The request ids the Master still holds: in a record, in a monitor thread
\* or in a TIMEOUT_CHECK not handled yet.
IdsInUse(s) ==
    UNION {{s.workers[w].request_infos[i].request_id :
                i \in 1..Len(s.workers[w].request_infos)} : w \in DOMAIN s.workers}
    \cup {m.req_id : m \in BagToSet(s.monitors)}
    \cup {s.message_queue[i].msg : i \in {j \in 1..Len(s.message_queue) :
                                            s.message_queue[j].type = "TIMEOUT_CHECK"}}
    \cup {s.batch[i].msg : i \in {j \in 1..Len(s.batch) :
                                    s.batch[j].type = "TIMEOUT_CHECK"}}

\* random.randint(1000, 9999).  Which number comes out matters only through
\* the ids it equals, so a number whose id is not in use stands for the least
\* such number.
Draw(s, kind, pick) ==
    IF ReqId(kind, pick) \in IdsInUse(s) THEN pick
    ELSE CHOOSE n \in ReqNums :
            /\ ReqId(kind, n) \notin IdsInUse(s)
            /\ \A k \in ReqNums : ReqId(kind, k) \notin IdsInUse(s) => n <= k

\* threading.Thread(target=self._timeout_monitor, args=(req_id, 3)).start()
StartMonitor(s, r) ==
    [s EXCEPT !.monitors = @ (+) SetToBag({[req_id |-> r, left |-> AckTimeout]})]

RemoveReqId(infos, r) == SelectSeq(infos, LAMBDA i : i.request_id # r)

\* the file part of _handle_worker_disconnect: only a worker whose status is
\* "working" has its file renamed back.
RequeueOnDisconnect(td, worker) ==
    IF /\ worker.status = "working"
       /\ worker.current_task_file # ""
       /\ PathExists(td, "working", worker.current_task_file)
       /\ RenameOk(td, "working", "pending", worker.current_task_file)
    THEN Rename(td, "working", "pending", worker.current_task_file)
    ELSE td

\* TaskMaster._handle_worker_disconnect
HandleWorkerDisconnect(s, wid) ==
    IF wid \notin DOMAIN s.workers THEN s
    ELSE [s EXCEPT !.tasks_dir = RequeueOnDisconnect(s.tasks_dir, s.workers[wid]),
                   !.workers[wid].status = "exiting",
                   !.disc_threads = @ (+) SetToBag({wid})]

\* A move that takes every reported file to done/.
MoveCompletedToDone(td, name, target) ==
    IF PathExists(td, "working", name) /\ RenameOk(td, "working", "done", name)
    THEN Rename(td, "working", "done", name)
    ELSE td

\* the file part of _handle_task_completion
MoveCompleted(td, name, target) ==
    IF PathExists(td, "working", name) /\ RenameOk(td, "working", target, name)
    THEN Rename(td, "working", target, name)
    ELSE td

\* TaskMaster._handle_task_completion
HandleTaskCompletion(s, wid, result_type) ==
    IF wid \notin DOMAIN s.workers THEN s
    ELSE LET worker == s.workers[wid]
             target == IF result_type = "DONE" THEN "done" ELSE "failed"
         IN  [s EXCEPT !.tasks_dir = MoveCompleted(@, worker.current_task_file, target),
                       !.workers[wid].status = "idle",
                       !.workers[wid].current_task_file = ""]

\* the REQUEST_ACK branch of _handle_worker_message
HandleRequestAck(s, wid, req_id) ==
    IF req_id = "" THEN s
    ELSE [s EXCEPT !.workers[wid].status = "working",
                   !.workers[wid].request_infos = RemoveReqId(@, req_id)]

\* the CHECK_ACK branch of _handle_worker_message
HandleCheckAck(s, wid, req_id) ==
    IF req_id = "" THEN s
    ELSE [s EXCEPT !.workers[wid].request_infos = RemoveReqId(@, req_id)]

\* TaskMaster._handle_worker_message
HandleWorkerMessage(s, wid, message) ==
    IF wid \notin DOMAIN s.workers THEN s
    ELSE CASE message.type = "REQUEST_ACK" -> HandleRequestAck(s, wid, message.req_id)
           [] message.type \in {"DONE", "FAILED"} -> HandleTaskCompletion(s, wid, message.type)
           [] message.type = "CHECK_ACK" -> HandleCheckAck(s, wid, message.req_id)
           [] message.type = "LEAVE" -> HandleWorkerDisconnect(s, wid)
           [] OTHER -> s

RECURSIVE HandleMessages(_, _, _)
\* the loop over messages of _receive_worker_messages; message.get raises
\* AttributeError on a value that is no dict, which ends the loop
HandleMessages(s, wid, messages) ==
    IF messages = <<>> THEN [s |-> s, raised |-> FALSE]
    ELSE IF Head(messages).tok # "obj" THEN [s |-> s, raised |-> TRUE]
    ELSE HandleMessages(HandleWorkerMessage(s, wid, Head(messages).m), wid, Tail(messages))

RECURSIVE DisconnectAll(_, _)
DisconnectAll(s, wids) ==
    IF wids = <<>> THEN s
    ELSE DisconnectAll(HandleWorkerDisconnect(s, Head(wids)), Tail(wids))

RECURSIVE ReceiveLoop(_, _, _, _)
\* the for loop of _receive_worker_messages, then its disconnect loop;
\* recvd[c] is what socket.recv(1024) finds on connection c
ReceiveLoop(s, wids, disconnected, recvd) ==
    IF wids = <<>> THEN DisconnectAll(s, disconnected)
    ELSE LET wid == Head(wids)
             c == s.workers[wid].socket
             data == recvd[c]
         IN  IF s.conn[c].st = "closed"
             THEN \* the socket was closed by a disconnect thread: recv raises
                  ReceiveLoop(s, Tail(wids), Append(disconnected, wid), recvd)
             ELSE IF data = EOF
             THEN \* recv returns b'': the peer has closed
                  ReceiveLoop(s, Tail(wids), Append(disconnected, wid), recvd)
             ELSE IF data # <<>> /\ ParseRaises(data)
             THEN ReceiveLoop(s, Tail(wids), Append(disconnected, wid), recvd)
             ELSE IF data # <<>>
             THEN LET handled == HandleMessages(s, wid, ParseJsonMessages(data))
                  IN  ReceiveLoop(handled.s, Tail(wids),
                                  IF handled.raised THEN Append(disconnected, wid)
                                  ELSE disconnected,
                                  recvd)
             ELSE \* socket.timeout
                  ReceiveLoop(s, Tail(wids), disconnected, recvd)

InfoIds(worker) ==
    {worker.request_infos[i].request_id : i \in 1..Len(worker.request_infos)}

\* What the peer of a record may have written since the last recv on its
\* connection.  A peer is a worker that can be slow, silent or gone, but
\* keeps to the protocol: it acknowledges what it was sent, reports a result
\* for a REQUEST it has acknowledged, and may leave.
RequestAcks(worker) ==
    {Msg("REQUEST_ACK", "", TaskId(n)) : n \in {k \in ReqNums : TaskId(k) \in InfoIds(worker)}}
CheckAcks(worker) ==
    {Msg("CHECK_ACK", "", CheckId(n)) : n \in {k \in ReqNums : CheckId(k) \in InfoIds(worker)}}
Results == {Msg(t, "", "") : t \in {"DONE", "FAILED", "USAGE_LIMITED"}}

WorkerMsgs(worker, owes) ==
    RequestAcks(worker) \cup CheckAcks(worker)
    \cup (IF owes THEN Results ELSE {}) \cup {Msg("LEAVE", "", "")}

\* The records whose socket is connection c.
RecordsOf(c) == {w \in DOMAIN workers : workers[w].socket = c}

PeerMsgs(c) ==
    IF conn[c].st \notin {"registered", "open"} \/ conn[c].peer_closed THEN {}
    ELSE UNION {WorkerMsgs(workers[w], conn[c].owes) : w \in RecordsOf(c)}

\* The bytes of at most k frames, written as TaskWorker writes them; the
\* worker reports one result for a task, so at most one frame is a result.
RECURSIVE PeerData(_, _)
PeerData(c, k) ==
    IF k = 0 THEN {<<>>}
    ELSE LET HasResult(d) == \E i \in 1..Len(d) : d[i].tok = "obj" /\ d[i].m \in Results
         IN  PeerData(c, k - 1)
             \cup {x[1] \o WorkerEncode(x[2]) :
                     x \in {y \in PeerData(c, k - 1) \X PeerMsgs(c) :
                               ~(y[2] \in Results /\ HasResult(y[1]))}}

\* What recv can find on connection c: nothing (it times out), frames, or
\* the end of the stream when the peer has closed or died.
RecvData(c) ==
    IF conn[c].st \notin {"registered", "open"} THEN {<<>>}
    ELSE IF conn[c].peer_closed THEN {EOF}
    ELSE PeerData(c, MaxInbuf) \cup {EOF}

\* What the connections hold when the main loop comes to read them.
Received == {r \in [Conns -> UNION {RecvData(c) : c \in Conns}] :
                \A c \in Conns : r[c] \in RecvData(c)}

\* The peer that wrote data: it owes a result once it has acknowledged a
\* REQUEST, and no longer once it has reported one.
RECURSIVE OwesAfter(_, _)
OwesAfter(owes, data) ==
    IF data = <<>> THEN owes
    ELSE OwesAfter(IF Head(data).tok # "obj" THEN owes
                   ELSE IF Head(data).m.type = "REQUEST_ACK" THEN TRUE
                   ELSE IF Head(data).m \in Results THEN FALSE
                   ELSE owes,
                   Tail(data))

\* The message a peer is in the middle of, after the Master has read data.
CutAfter(cut, data) ==
    IF data = <<>> THEN cut
    ELSE IF data[Len(data)].tok = "head" THEN data[Len(data)].m
    ELSE NoMsg

\* By the time the main loop reads again, the peers have taken what it wrote
\* and written recvd.
PeersAfter(cn, recvd) ==
    [c \in Conns |-> [cn[c] EXCEPT !.wire = <<>>, !.owes = OwesAfter(@, recvd[c]),
                                   !.cut = CutAfter(@, recvd[c])]]

\* TaskMaster._receive_worker_messages, over the inputs in RecvSet
ReceiveWorkerMessages(RecvSet, lim) ==
    /\ mpc = "receive"
    /\ \E recvd \in RecvSet :
        LET s == ReceiveLoop([MState EXCEPT !.conn = PeersAfter(conn, recvd)],
                             WorkerList(workers), <<>>, recvd)
        IN  Bounded(s, lim) /\ Commit(s)
    /\ mpc' = "internal"
    /\ UNCHANGED timer_left
    /\ UNCHANGED <<wvars, qvars>>

(***************************************************************************)
(* The timer tick and the health checks.                                   *)
(***************************************************************************)
\* The sends that raise in one pass over the registry: those on a socket the
\* Master has closed must, those on a connection the peer has left may.
SendFailures(s, fails) ==
    /\ fails \subseteq DOMAIN s.workers
    /\ \A w \in DOMAIN s.workers :
        /\ SendMustFail(s, s.workers[w].socket) => w \in fails
        /\ w \in fails => SendMayFail(s, s.workers[w].socket)

\* one iteration of the loop of _perform_health_checks
HealthCheck(s, wid, n, fail) ==
    IF fail THEN HandleWorkerDisconnect(s, wid)
    ELSE LET req_id == CheckId(Draw(s, "check", n))
             written == Send(s, s.workers[wid].socket,
                             MasterEncode(Msg("CHECK", "", req_id)))
         IN  StartMonitor(
                 [written EXCEPT !.workers[wid].request_infos =
                                  Append(@, RequestInfo(req_id, AckTimeout))],
                 req_id)

RECURSIVE HealthCheckLoop(_, _, _, _)
HealthCheckLoop(s, wids, rids, fails) ==
    IF wids = <<>> THEN s
    ELSE HealthCheckLoop(HealthCheck(s, Head(wids), rids[Head(wids)], Head(wids) \in fails),
                         Tail(wids), rids, fails)

\* TaskMaster._perform_health_checks
PerformHealthChecks(s, rids, fails) ==
    HealthCheckLoop(s, WorkerList(s.workers), rids, fails)

\* A count that leaves pending/ out.
OutstandingCountWorking(td) == Cardinality(Glob(td, "working"))

\* the count of _handle_timer_event
OutstandingCount(td) ==
    Cardinality(Glob(td, "pending")) + Cardinality(Glob(td, "working"))

\* TaskMaster._handle_timer_event
HandleTimerEvent(s, rids, fails) ==
    IF OutstandingCount(s.tasks_dir) = 0
    THEN AddMessage(s, "COMPLETED", "")
    ELSE PerformHealthChecks(s, rids, fails)

(***************************************************************************)
(* Timeout expiry.                                                         *)
(***************************************************************************)
HasReqId(worker, r) == \E i \in 1..Len(worker.request_infos) :
                            worker.request_infos[i].request_id = r

FirstIndex(infos, r) ==
    CHOOSE i \in 1..Len(infos) :
        /\ infos[i].request_id = r
        /\ \A j \in 1..(i - 1) : infos[j].request_id # r

RemoveAt(seq, i) == SubSeq(seq, 1, i - 1) \o SubSeq(seq, i + 1, Len(seq))

\* A test that takes every deadline for passed.
TimedOutAlways(info) == TRUE

\* the test of _handle_timeout_check: current_time > request_info.timeout_time
TimedOut(info) == 0 > info.timeout_time

\* TaskMaster._handle_timeout_check
HandleTimeoutCheck(s, req_id) ==
    LET holders == SelectSeq(WorkerList(s.workers),
                             LAMBDA w : HasReqId(s.workers[w], req_id))
    IN  IF holders = <<>> THEN s
        ELSE LET wid == Head(holders)
                 infos == s.workers[wid].request_infos
                 i == FirstIndex(infos, req_id)
             IN  IF TimedOut(infos[i])
                 THEN HandleWorkerDisconnect(
                          [s EXCEPT !.workers[wid].request_infos = RemoveAt(infos, i)], wid)
                 ELSE s

(***************************************************************************)
(* The internal message queue.                                             *)
(***************************************************************************)
\* del self.workers[worker_id]
DeleteWorker(s, wid) ==
    IF wid \in DOMAIN s.workers
    THEN [s EXCEPT !.workers = [w \in DOMAIN s.workers \ {wid} |-> s.workers[w]]]
    ELSE s

RECURSIVE InternalLoop(_, _, _)
\* the for loop of _process_internal_messages
InternalLoop(s, rids, fails) ==
    IF s.batch = <<>> THEN s
    ELSE LET message == Head(s.batch)
             rest == [s EXCEPT !.batch = Tail(@)]
         IN  CASE message.type = "TIMER" ->
                    InternalLoop(HandleTimerEvent(rest, rids, fails), rids, fails)
               [] message.type = "COMPLETED" ->
                    [rest EXCEPT !.running = FALSE]
               [] message.type = "DISCONNECT" ->
                    InternalLoop(DeleteWorker(rest, message.msg), rids, fails)
               [] message.type = "TIMEOUT_CHECK" ->
                    InternalLoop(HandleTimeoutCheck(rest, message.msg), rids, fails)
               [] OTHER -> InternalLoop(rest, rids, fails)

\* TaskMaster._process_internal_messages (with _get_messages); FailSet: the
\* workers a send to which can raise
ProcessInternalMessages(FailSet, lim) ==
    /\ mpc = "internal"
    /\ disc_threads = EmptyBag
    /\ \E rids \in [WorkerIds -> ReqNums], fails \in SUBSET FailSet :
        /\ SendFailures(MState, fails)
        /\ LET s == InternalLoop([MState EXCEPT !.message_queue = <<>>,
                                               !.batch = message_queue], rids, fails)
           IN  Bounded(s, lim) /\ Commit(s)
    /\ mpc' = "pending"
    /\ UNCHANGED timer_left
    /\ UNCHANGED <<wvars, qvars>>

(***************************************************************************)
(* Assignment.                                                             *)
(***************************************************************************)
\* working_file.read_text(encoding='utf-8')
Contents(f) == "prompt of " \o f

\* An except branch that leaves the file where it is.
RollbackKeeps(td, f) == td

\* the except branch of _process_pending_tasks
Rollback(td, f) ==
    IF PathExists(td, "working", f) /\ RenameOk(td, "working", "pending", f)
    THEN Rename(td, "working", "pending", f)
    ELSE td

\* one iteration of the for loop of _process_pending_tasks; readfail: reading
\* the file raises, sendfail: sending the REQUEST raises
AssignTask(s, f, wid, n, readfail, sendfail) ==
    IF ~RenameOk(s.tasks_dir, "pending", "working", f) THEN s
    ELSE LET moved == Rename(s.tasks_dir, "pending", "working", f)
             req_id == TaskId(Draw(s, "task", n))
         IN  IF readfail THEN [s EXCEPT !.tasks_dir = Rollback(moved, f)]
             ELSE IF sendfail
             THEN [SendFailed(s, s.workers[wid].socket)
                     EXCEPT !.tasks_dir = Rollback(moved, f)]
             ELSE StartMonitor(
                      [Send(s, s.workers[wid].socket,
                            MasterEncode(Msg("REQUEST", Contents(f), req_id)))
                         EXCEPT !.tasks_dir = moved,
                                !.workers[wid].status = "requesting",
                                !.workers[wid].current_task_file = f,
                                !.workers[wid].request_infos =
                                    Append(@, RequestInfo(req_id, AckTimeout))],
                      req_id)

RECURSIVE AssignLoopSameWorker(_, _, _, _, _, _)
\* A loop that pairs every pending file with the first idle worker.
AssignLoopSameWorker(s, pending_files, idle_workers, rids, fails, readfails) ==
    IF pending_files = <<>> \/ idle_workers = <<>> THEN s
    ELSE LET f == Head(pending_files)
             wid == Head(idle_workers)
         IN  AssignLoopSameWorker(
                 AssignTask(s, f, wid, rids[wid], f \in readfails, wid \in fails),
                 Tail(pending_files), idle_workers, rids, fails, readfails)

RECURSIVE AssignLoop(_, _, _, _, _, _)
AssignLoop(s, pending_files, idle_workers, rids, fails, readfails) ==
    IF pending_files = <<>> \/ idle_workers = <<>> THEN s
    ELSE LET f == Head(pending_files)
             wid == Head(idle_workers)
         IN  AssignLoop(AssignTask(s, f, wid, rids[wid], f \in readfails, wid \in fails),
                        Tail(pending_files), Tail(idle_workers), rids, fails, readfails)

IdleWorkers(ws) == SelectSeq(WorkerList(ws), LAMBDA w : ws[w].status = "idle")

\* TaskMaster._process_pending_tasks; FailSet: the workers a send to which
\* can raise, ReadFailSet: the files reading which can raise
ProcessPendingTasks(FailSet, ReadFailSet, lim) ==
    /\ mpc = "pending"
    /\ disc_threads = EmptyBag
    /\ \E rids \in [WorkerIds -> ReqNums], fails \in SUBSET FailSet,
          readfails \in SUBSET ReadFailSet :
        /\ SendFailures(MState, fails)
        /\ LET s == AssignLoop(MState, GlobList(tasks_dir, "pending"),
                               IdleWorkers(workers), rids, fails, readfails)
           IN  Bounded(s, lim) /\ Commit(s)
    /\ mpc' = "accept"
    /\ UNCHANGED timer_left
    /\ UNCHANGED <<wvars, qvars>>

(***************************************************************************)
(* Accepting connections, the join handler thread, the end of the loop.    *)
(***************************************************************************)
\* TaskMaster._accept_new_connections: one accept() per iteration, then a
\* _handle_new_worker thread for the accepted socket.
AcceptNewConnections ==
    /\ mpc = "accept"
    /\ running
    /\ \A c \in Conns : conn[c].st # "registered"
    /\ \/ \E c \in Conns :
            /\ conn[c].st = "backlog"
            /\ conn' = [conn EXCEPT ![c].st = "handler"]
       \/ /\ \A c \in Conns : conn[c].st # "backlog"
          /\ UNCHANGED conn
    /\ mpc' = "receive"
    /\ UNCHANGED <<tasks_dir, workers, message_queue, running, monitors,
                   disc_threads, timer_left>>
    /\ UNCHANGED <<wvars, qvars>>

\* What a connecting peer can have written: the JOIN of TaskWorker._join_master
\* with the local port of its socket as worker_id, or something else.  Peers
\* on different hosts can have the same port.
PeerPorts == [c \in Conns |-> IF c = "c1" THEN {"55000"} ELSE WorkerIds]
JoinData(c) == {WorkerEncode(Msg("JOIN", wid, "")) : wid \in PeerPorts[c]}
               \cup {WorkerEncode(Msg("LEAVE", "", ""))}

\* _handle_new_worker up to self.workers[worker_id] = worker; data is what
\* client_socket.recv(1024) returns
JoinRegister(c, data) ==
    /\ mpc = "pending"
    /\ conn[c].st = "handler"
    /\ LET text == Strip(data)
       IN  IF JsonLoadsOk(text) /\ text[1].m.type = "JOIN"
           THEN /\ workers' = [w \in DOMAIN workers \cup {text[1].m.msg} |->
                                 IF w = text[1].m.msg THEN WorkerObject(c) ELSE workers[w]]
                /\ conn' = [conn EXCEPT ![c].st = "registered"]
           ELSE /\ conn' = [conn EXCEPT ![c] = ClosedConn]
                /\ UNCHANGED workers
    /\ UNCHANGED <<tasks_dir, message_queue, running, mpc, monitors, disc_threads,
                   timer_left>>
    /\ UNCHANGED <<wvars, qvars>>

\* _handle_new_worker from client_socket.send(JOIN_ACK) on; fail: the send
\* raises, and the handler closes the socket
JoinAck(c, fail) ==
    /\ mpc = "accept"
    /\ conn[c].st = "registered"
    /\ conn[c].peer_closed => fail
    /\ conn' = IF fail THEN [conn EXCEPT ![c] = ClosedConn]
               ELSE [conn EXCEPT ![c].st = "open",
                                 ![c].wire = MasterEncode(Msg("JOIN_ACK", "", ""))]
    /\ UNCHANGED <<tasks_dir, workers, message_queue, running, mpc, monitors,
                   disc_threads, timer_left>>
    /\ UNCHANGED <<wvars, qvars>>

\* The sockets _shutdown's disconnect threads close.
CloseAll(cn, ws) ==
    [c \in Conns |-> IF \E w \in DOMAIN ws : ws[w].socket = c
                     THEN ClosedConn ELSE cn[c]]

\* _main_loop leaves its while loop and runs _shutdown, which starts one
\* _disconnect_worker thread per record and waits for them; the DISCONNECT
\* messages they queue are never read.
MainLoopExit ==
    /\ mpc = "accept"
    /\ ~running
    /\ \A c \in Conns : conn[c].st # "registered"
    /\ conn' = CloseAll(conn, workers)
    /\ mpc' = "exited"
    /\ UNCHANGED <<tasks_dir, workers, message_queue, running, monitors,
                   disc_threads, timer_left>>
    /\ UNCHANGED <<wvars, qvars>>

\* TaskMaster._signal_handler
SignalHandler ==
    /\ running
    /\ mpc = "pending"
    /\ Len(message_queue) < MaxQueue
    /\ running' = FALSE
    /\ message_queue' = Append(message_queue, [type |-> "COMPLETED", msg |-> ""])
    /\ UNCHANGED <<tasks_dir, workers, mpc, conn, monitors, disc_threads, timer_left>>
    /\ UNCHANGED <<wvars, qvars>>

(***************************************************************************)
(* The helper threads.                                                     *)
(***************************************************************************)
\* TaskMaster._disconnect_worker
DisconnectWorker(wid) ==
    /\ mpc \in {"internal", "pending"}
    /\ BagIn(wid, disc_threads)
    /\ \A w \in BagToSet(disc_threads) : Rank(wid) <= Rank(w)
    /\ disc_threads' = disc_threads (-) SetToBag({wid})
    /\ IF wid \in DOMAIN workers
       THEN /\ Len(message_queue) < MaxQueue
            /\ conn' = [conn EXCEPT ![workers[wid].socket] = ClosedConn]
            /\ message_queue' = Append(message_queue, [type |-> "DISCONNECT", msg |-> wid])
       ELSE UNCHANGED <<conn, message_queue>>
    /\ UNCHANGED <<tasks_dir, workers, running, mpc, monitors, timer_left>>
    /\ UNCHANGED <<wvars, qvars>>

(***************************************************************************)
(* Time and the sleeping threads; the TCP peers.                           *)
(***************************************************************************)
Max(a, b) == IF a > b THEN a ELSE b

TickInfos(infos, d) ==
    [i \in 1..Len(infos) |-> [infos[i] EXCEPT !.timeout_time = Max(@ - d, -1)]]

\* The monitor threads other than one copy of m, d seconds later.
TickMonitors(b, m, d) ==
    LET rest == b (-) SetToBag({m})
        old == BagToSet(rest)
        Later(x) == [x EXCEPT !.left = @ - d]
    IN  [y \in {Later(x) : x \in old} |-> rest[CHOOSE x \in old : Later(x) = y]]

\* No monitor thread: TickMonitors(b, NoMonitor, d) is every thread of b.
NoMonitor == [req_id |-> "", left |-> 0]

\* The clock d seconds later.
Elapse(d, m) ==
    /\ monitors' = TickMonitors(monitors, m, d)
    /\ workers' = [w \in DOMAIN workers |->
                      [workers[w] EXCEPT !.request_infos = TickInfos(@, d)]]

\* The main loop comes round at least once a second (accept() times out after
\* 1.0 s), and its handlers take no time on this scale.  So the clock moves
\* while the loop is in accept(), and it moves by more than a second only
\* over iterations that find nothing to do.
MayElapse(d) ==
    /\ mpc = "accept"
    /\ \A c \in Conns : conn[c].st # "registered"
    /\ timer_left >= d
    /\ \A m \in BagToSet(monitors) : m.left >= d
    /\ d > 1 => message_queue = <<>>

\* TaskMaster._timer_thread: the sleep ends, TIMER is queued
TimerThread ==
    /\ MayElapse(timer_left)
    /\ running
    /\ Len(message_queue) < MaxQueue
    /\ message_queue' = Append(message_queue, [type |-> "TIMER", msg |-> ""])
    /\ timer_left' = TimerInterval
    /\ Elapse(timer_left, NoMonitor)
    /\ UNCHANGED <<tasks_dir, running, mpc, conn, disc_threads>>
    /\ UNCHANGED <<wvars, qvars>>

\* TaskMaster._timeout_monitor: the sleep ends, TIMEOUT_CHECK is queued
TimeoutMonitor(m) ==
    /\ BagIn(m, monitors)
    /\ MayElapse(m.left)
    /\ Len(message_queue) < MaxQueue
    /\ message_queue' = Append(message_queue, [type |-> "TIMEOUT_CHECK", msg |-> m.req_id])
    /\ timer_left' = timer_left - m.left
    /\ Elapse(m.left, m)
    /\ UNCHANGED <<tasks_dir, running, mpc, conn, disc_threads>>
    /\ UNCHANGED <<wvars, qvars>>

\* A deadline that is exactly now.
DeadlineNow == \E w \in DOMAIN workers : \E i \in 1..Len(workers[w].request_infos) :
                    workers[w].request_infos[i].timeout_time = 0

\* A second passes between a deadline and the main loop's next look at it.
Tick ==
    /\ DeadlineNow
    /\ MayElapse(1)
    /\ timer_left' = timer_left - 1
    /\ Elapse(1, NoMonitor)
    /\ UNCHANGED <<tasks_dir, message_queue, running, mpc, conn, disc_threads>>
    /\ UNCHANGED <<wvars, qvars>>

\* A peer connects.
PeerConnect(c) ==
    /\ mpc = "accept"
    /\ conn[c].st = "free"
    /\ c # "c1" => conn["c1"].st # "free"
    /\ conn' = [conn EXCEPT ![c].st = "backlog"]
    /\ UNCHANGED <<tasks_dir, workers, message_queue, running, mpc, monitors,
                   disc_threads, timer_left>>
    /\ UNCHANGED <<wvars, qvars>>

(***************************************************************************)
(* The Master.                                                             *)
(***************************************************************************)
MNext ==
    \/ AcceptNewConnections
    \/ ReceiveWorkerMessages(Received, Limits)
    \/ ProcessInternalMessages(WorkerIds, Limits)
    \/ ProcessPendingTasks(WorkerIds, Files, Limits)
    \/ MainLoopExit
    \/ SignalHandler
    \/ TimerThread
    \/ Tick
    \/ \E c \in Conns : PeerConnect(c)
    \/ \E c \in Conns : \E fail \in BOOLEAN : JoinAck(c, fail)
    \/ \E c \in Conns : \E data \in JoinData(c) : JoinRegister(c, data)
    \/ \E wid \in WorkerIds : DisconnectWorker(wid)
    \/ \E m \in BagToSet(monitors) : TimeoutMonitor(m)

(***************************************************************************)
(* The Worker: TaskWorker (the protocol loop) and ClaudeManagerThread (the *)
(* supervisor with its task threads).  The other end of its socket is a    *)
(* peer that writes CHECK and REQUEST messages, each framed either as      *)
(* TaskMaster frames them or with a newline at its end.                    *)
(***************************************************************************)
\* str(local_port) of TaskWorker._connect_to_master
WorkerId == "55000"

\* The part of the worker's state the message handlers work on.
WState ==
    [w_running |-> w_running, recv_buffer |-> recv_buffer,
     last_request_time |-> last_request_time, cm_message_queue |-> cm_message_queue,
     link |-> link, sent |-> sent, handed |-> handed, raised |-> raised]

WCommit(s) ==
    /\ w_running' = s.w_running
    /\ recv_buffer' = s.recv_buffer
    /\ last_request_time' = s.last_request_time
    /\ cm_message_queue' = s.cm_message_queue
    /\ link' = s.link
    /\ sent' = s.sent
    /\ handed' = s.handed
    /\ raised' = s.raised

\* self.socket.send(message_data.encode('utf-8')); fail: the send raises.  The
\* log keeps the bytes written and the req_id they are about.
WSend(s, m, req_id, fail) ==
    IF fail \/ s.link = "down" THEN [s EXCEPT !.link = "down"]
    ELSE [s EXCEPT !.sent = Append(@, [frame |-> WorkerEncode(m), req_id |-> req_id])]

SendRaises(s, fail) == fail \/ s.link = "down"

\* TaskWorker._handle_health_check
HandleHealthCheck(s, message, fail) ==
    LET after == WSend(s, Msg("CHECK_ACK", "", message.req_id), message.req_id, fail)
    IN  IF SendRaises(s, fail)
        THEN [after EXCEPT !.raised = @ \cup {<<message.req_id, "check_ack">>}]
        ELSE after

\* f"task_{req_id}"
TaskFilename(req_id) == "task_" \o req_id

\* claude_manager.add_message of TaskWorker._handle_task_request
HandToSupervisor(s, message) ==
    [s EXCEPT !.cm_message_queue =
                  Append(@, [type |-> "REQUEST", msg |-> message.msg,
                             req_id |-> message.req_id,
                             task_filename |-> TaskFilename(message.req_id)]),
              !.handed = @ \cup {message.req_id}]

\* The request goes to the supervisor although its ack was not sent.
AckFailedHandsOver(s, message) == HandToSupervisor(s, message)

\* TaskWorker._handle_task_request, after the send that raised: return
AckFailed(s, message) == s

\* TaskWorker._handle_task_request
HandleTaskRequest(s, message, fail) ==
    LET after == WSend(s, Msg("REQUEST_ACK", "", message.req_id), message.req_id, fail)
    IN  IF SendRaises(s, fail)
        THEN AckFailed([after EXCEPT !.raised = @ \cup {<<message.req_id, "ack">>}],
                       message)
        ELSE HandToSupervisor(after, message)

\* TaskWorker._handle_master_message
HandleMasterMessage(s, message, fail) ==
    CASE message.type = "CHECK" -> HandleHealthCheck(s, message, fail)
      [] message.type = "REQUEST" ->
            HandleTaskRequest([s EXCEPT !.last_request_time = TRUE], message, fail)
      [] message.type = "DISCONNECT" -> [s EXCEPT !.w_running = FALSE]
      [] OTHER -> s

HasNewline(buf) == \E i \in 1..Len(buf) : buf[i].tok = "nl"
FirstNewline(buf) == CHOOSE i \in 1..Len(buf) :
                        /\ buf[i].tok = "nl"
                        /\ \A j \in 1..(i - 1) : buf[j].tok # "nl"

\* A reader that takes the first line and throws the rest of the read away.
ReaderLoopFirstLine(s, fails) ==
    IF ~HasNewline(s.recv_buffer) THEN s
    ELSE LET k == FirstNewline(s.recv_buffer)
             line == SubSeq(s.recv_buffer, 1, k - 1)
             rest == [s EXCEPT !.recv_buffer = <<>>]
         IN  IF line # <<>> /\ JsonLoadsOk(line)
             THEN HandleMasterMessage(rest, line[1].m, line[1].m.req_id \in fails)
             ELSE rest

RECURSIVE ReaderLoop(_, _)
\* the while loop of _receive_master_messages: while '\n' in self._recv_buffer;
\* fails: the req_ids the answer to which cannot be sent
ReaderLoop(s, fails) ==
    IF ~HasNewline(s.recv_buffer) THEN s
    ELSE LET k == FirstNewline(s.recv_buffer)
             line == SubSeq(s.recv_buffer, 1, k - 1)
             rest == [s EXCEPT !.recv_buffer = SubSeq(@, k + 1, Len(@))]
         IN  IF line # <<>> /\ JsonLoadsOk(line)
             THEN ReaderLoop(HandleMasterMessage(rest, line[1].m,
                                                 line[1].m.req_id \in fails), fails)
             ELSE ReaderLoop(rest, fails)

\* The messages the reader takes out of a buffer and dispatches.
RECURSIVE Dispatched(_)
Dispatched(buf) ==
    IF ~HasNewline(buf) THEN <<>>
    ELSE LET k == FirstNewline(buf)
             line == SubSeq(buf, 1, k - 1)
         IN  (IF line # <<>> /\ JsonLoadsOk(line) THEN <<line[1].m>> ELSE <<>>)
             \o Dispatched(SubSeq(buf, k + 1, Len(buf)))

\* What the peer writes in all: a CHECK now and then and a REQUEST per task,
\* every req_id once.
Script ==
    {Msg("CHECK", "", CheckId(n)) : n \in {RandMin, RandMin + 1}}
    \cup {Msg("REQUEST", Contents(FileSeq[i]), TaskId(RandMin + i - 1)) :
            i \in 1..Len(FileSeq)}

\* The bytes of at most k messages of ms, each written without a newline
\* (TaskMaster) or with one.
RECURSIVE Chunks(_, _)
Chunks(ms, k) ==
    IF k = 0 THEN {[data |-> <<>>, msgs |-> {}]}
    ELSE Chunks(ms, k - 1)
         \cup UNION {UNION {{[data |-> ch.data \o MasterEncode(m), msgs |-> ch.msgs \cup {m}],
                             [data |-> ch.data \o WorkerEncode(m), msgs |-> ch.msgs \cup {m}]} :
                            m \in ms \ ch.msgs} : ch \in Chunks(ms, k - 1)}

\* TaskWorker._receive_master_messages; chunk is what select and recv find,
\* closed: recv returns b'' or raises
ReceiveMasterMessages(chunk, closed, fails) ==
    IF closed THEN [WState EXCEPT !.w_running = FALSE, !.link = "down"]
    ELSE IF chunk.data = <<>> THEN WState
    ELSE ReaderLoop([WState EXCEPT !.recv_buffer = @ \o chunk.data], fails)

AllReqIds == {m.req_id : m \in Script}

\* the two calls of _receive_master_messages in one iteration of _main_loop:
\* the second is made while a REQUEST came less than 10 s ago; k: the
\* messages one recv may return at once
WReceive(k) ==
    /\ wpc \in {"receive", "receive_again"}
    /\ \E chunk \in Chunks(unsent, k), closed \in BOOLEAN, fails \in SUBSET AllReqIds :
        /\ link = "down" => closed
        /\ fails # {} => fails \subseteq {m.req_id : m \in chunk.msgs}
        /\ closed => chunk.data = <<>> /\ fails = {}
        /\ WCommit(ReceiveMasterMessages(chunk, closed, fails))
        /\ unsent' = unsent \ chunk.msgs
        /\ taken' = taken \cup (IF chunk.data = <<>> THEN {} ELSE {chunk.data})
    /\ \/ wpc = "receive" /\ last_request_time' /\ wpc' = "receive_again"
       \/ wpc' = "results"
    /\ UNCHANGED <<result_queue, cm_running, task_threads, outbox>>
    /\ UNCHANGED <<mvars, qvars>>


\* The message TaskWorker._send_task_result writes for a result.
ResultMessage(result) ==
    IF result.type = "USAGE_LIMITED" THEN Msg("USAGE_LIMITED", WorkerId, "")
    ELSE Msg(result.type, result.msg, "")

RECURSIVE SendResults(_, _, _)
\* the for loop of _process_claude_results over the copied queue
SendResults(s, results, fails) ==
    IF results = <<>> THEN s
    ELSE LET result == Head(results)
             fail == result.req_id \in fails
             after == WSend(s, ResultMessage(result), result.req_id, fail)
         IN  SendResults(IF SendRaises(s, fail)
                         THEN [after EXCEPT !.raised = @ \cup {<<result.req_id, "result">>}]
                         ELSE after,
                         Tail(results), fails)

\* TaskWorker._process_claude_results (with _send_task_result)
WProcessClaudeResults ==
    /\ wpc = "results"
    /\ \E fails \in SUBSET {result_queue[i].req_id : i \in 1..Len(result_queue)} :
        WCommit(SendResults(WState, result_queue, fails))
    /\ result_queue' = <<>>
    /\ wpc' = "top"
    /\ UNCHANGED <<cm_running, task_threads, unsent, taken, outbox>>
    /\ UNCHANGED <<mvars, qvars>>

\* while self.running: of TaskWorker._main_loop
WLoopTop ==
    /\ wpc = "top"
    /\ wpc' = IF w_running THEN "receive" ELSE "cleanup"
    /\ UNCHANGED <<w_running, recv_buffer, last_request_time, result_queue, cm_running,
                   cm_message_queue, task_threads, link, unsent, sent, taken, handed,
                   outbox, raised>>
    /\ UNCHANGED <<mvars, qvars>>

\* ClaudeManagerThread.stop
Stop(queue) == Append(queue, [type |-> "EXIT", msg |-> "", req_id |-> "",
                              task_filename |-> ""])

\* TaskWorker._signal_handler
WSignalHandler ==
    /\ w_running
    /\ wpc \in {"top", "receive", "receive_again", "results"}
    /\ w_running' = FALSE
    /\ cm_running' = FALSE
    /\ cm_message_queue' = Stop(cm_message_queue)
    /\ UNCHANGED <<wpc, recv_buffer, last_request_time, result_queue, task_threads, link,
                   unsent, sent, taken, handed, outbox, raised>>
    /\ UNCHANGED <<mvars, qvars>>

\* TaskWorker._cleanup; the process ends after it, and its daemon threads
\* with it
WCleanup ==
    /\ wpc = "cleanup"
    /\ cm_running' = FALSE
    /\ cm_message_queue' = Stop(cm_message_queue)
    /\ \E fail \in BOOLEAN :
        LET s == WSend(WState, Msg("LEAVE", "", ""), "", fail)
        IN  /\ sent' = s.sent
            /\ raised' = IF SendRaises(WState, fail)
                         THEN raised \cup {<<"", "leave">>} ELSE raised
    /\ link' = "down"
    /\ wpc' = "stopped"
    /\ UNCHANGED <<w_running, recv_buffer, last_request_time, result_queue, task_threads,
                   unsent, taken, handed, outbox>>
    /\ UNCHANGED <<mvars, qvars>>

\* one iteration of ClaudeManagerThread._run that finds a message (with
\* _get_next_message and ClaudeManagerThread._handle_task_request)
CmRun ==
    /\ wpc # "stopped"
    /\ cm_running
    /\ cm_message_queue # <<>>
    /\ cm_message_queue' = Tail(cm_message_queue)
    /\ LET message == Head(cm_message_queue)
       IN  task_threads' =
              IF message.type = "REQUEST"
              THEN task_threads \cup {[req_id |-> message.req_id,
                                       task_filename |-> message.task_filename,
                                       at |-> "execute"]}
              ELSE task_threads
    /\ UNCHANGED <<w_running, wpc, recv_buffer, last_request_time, result_queue,
                   cm_running, link, unsent, sent, taken, handed, outbox, raised>>
    /\ UNCHANGED <<mvars, qvars>>

\* What ClaudeManagerThread._execute_task can return; it raises nothing.
ResultTypes == {"DONE", "FAILED", "USAGE_LIMITED"}

\* TaskWorker._handle_claude_result, the result callback
HandleClaudeResult(queue, result) == Append(queue, result)

\* A thread of task_threads moves on to where, or ends.
Moved(th, where) ==
    IF where = "end" THEN task_threads \ {th}
    ELSE (task_threads \ {th}) \cup {[th EXCEPT !.at = where]}

\* The result callback is called with a result of the given type; cbraise:
\* the call raises before the result is on the queue.
Callback(th, result_type, cbraise, where) ==
    LET result == Msg(result_type, th.task_filename, th.req_id)
    IN  IF cbraise
        THEN /\ raised' = raised \cup {<<th.req_id, "callback">>}
             /\ UNCHANGED <<result_queue, outbox>>
        ELSE /\ result_queue' = HandleClaudeResult(result_queue, result)
             /\ outbox' = Append(outbox, result)
             /\ task_threads' = Moved(th, where)
             /\ UNCHANGED raised

\* _execute_task_async up to the result callback
TaskExecute(th) ==
    /\ wpc # "stopped"
    /\ th \in task_threads
    /\ th.at = "execute"
    /\ \E result_type \in ResultTypes, cbraise \in BOOLEAN :
        /\ Callback(th, result_type, cbraise, "clear")
        /\ cbraise => task_threads' = Moved(th, "except")
    /\ UNCHANGED <<w_running, wpc, recv_buffer, last_request_time, cm_running,
                   cm_message_queue, link, unsent, sent, taken, handed>>
    /\ UNCHANGED <<mvars, qvars>>

\* An exception inside _clear_context gets out of it.
ClearContextLeaks(inner) == IF inner THEN "raised" ELSE "returned"

\* ClaudeManagerThread._clear_context; inner: the /clear query raises.  Both
\* its except clauses log and go on.
ClearContext(inner) == "returned"

\* _execute_task_async: self._clear_context() after the callback
TaskClearContext(th) ==
    /\ wpc # "stopped"
    /\ th \in task_threads
    /\ th.at = "clear"
    /\ \E inner \in BOOLEAN :
        /\ task_threads' = Moved(th, IF ClearContext(inner) = "raised" THEN "except"
                                     ELSE "end")
        /\ raised' = IF inner THEN raised \cup {<<th.req_id, "clear">>} ELSE raised
    /\ UNCHANGED <<w_running, wpc, recv_buffer, last_request_time, result_queue,
                   cm_running, cm_message_queue, link, unsent, sent, taken, handed,
                   outbox>>
    /\ UNCHANGED <<mvars, qvars>>

\* _execute_task_async: the except clause
TaskExcept(th) ==
    /\ wpc # "stopped"
    /\ th \in task_threads
    /\ th.at = "except"
    /\ \E cbraise \in BOOLEAN :
        /\ Callback(th, "FAILED", cbraise, "end")
        /\ cbraise => task_threads' = Moved(th, "end")
    /\ UNCHANGED <<w_running, wpc, recv_buffer, last_request_time, cm_running,
                   cm_message_queue, link, unsent, sent, taken, handed>>
    /\ UNCHANGED <<mvars, qvars>>

WNext ==
    \/ WLoopTop
    \/ WReceive(MaxInbuf)
    \/ WProcessClaudeResults
    \/ WSignalHandler
    \/ WCleanup
    \/ CmRun
    \/ \E th \in task_threads : TaskExecute(th)
    \/ \E th \in task_threads : TaskClearContext(th)
    \/ \E th \in task_threads : TaskExcept(th)

(***************************************************************************)
(* The supervisor's handling of one request.  The agent is the             *)
(* environment: in each attempt query() yields a list of events and then   *)
(* ends, by the end of the turn ("end"), by an exception whose text holds  *)
(* "JSONDecodeError" or "unhandled errors in a TaskGroup" ("decode"), or   *)
(* by any other exception, as the agent process exiting abnormally         *)
(* ("error").  An event is a dict or a message object of the SDK; limit    *)
(* says that its error field or its assistant text holds "usage limit" or  *)
(* "rate limit".                                                           *)
(***************************************************************************)
Event(form, limit) == [form |-> form, limit |-> limit]
Events == {Event(form, limit) : form \in {"dict", "object"}, limit \in BOOLEAN}
Endings == {"end", "decode", "error"}

EventLists == UNION {[1..n -> Events] : n \in 0..MaxEvents}
Streams == [events : EventLists, ending : Endings]

\* ClaudeManagerThread._check_usage_limit: it looks into a dict only
CheckUsageLimit(message) == message.form = "dict" /\ message.limit

RECURSIVE QueryLoop(_, _)
\* the async for loop of _execute_claude_query: how it is left
QueryLoop(events, ending) ==
    IF events = <<>> THEN ending
    ELSE IF CheckUsageLimit(Head(events)) THEN "break"
    ELSE QueryLoop(Tail(events), ending)

Returns(t) == [ret |-> t, exc |-> ""]
Raises(e) == [ret |-> "", exc |-> e]

\* ClaudeManagerThread._execute_claude_query
ExecuteClaudeQuery(stream) ==
    LET left == QueryLoop(stream.events, stream.ending)
    IN  CASE left = "break" -> Returns("USAGE_LIMITED")
          [] left = "end" -> Returns("DONE")
          [] left = "decode" -> Raises("JSONDecodeError")
          [] OTHER -> Returns("FAILED")

\* ClaudeManagerThread._execute_task: except Exception returns "FAILED"
ExecuteTask(stream) ==
    LET result == ExecuteClaudeQuery(stream)
    IN  IF result.exc # "" THEN Returns("FAILED") ELSE result

\* threading.Thread(target=self._execute_task_async, ...).start(), with the
\* agent's behaviour in the attempts to come
QStart ==
    /\ q_pc = "idle"
    /\ q_agent' \in [1..MaxRetries -> Streams]
    /\ q_pc' = "loop"
    /\ UNCHANGED <<q_retry_count, q_result_type, q_calls, q_reported, sp_objs, sp_parts>>
    /\ UNCHANGED <<mvars, wvars>>

\* one pass of the while loop of _execute_task_async (q_retry_count and
\* q_result_type are its retry_count and result_type)
QAttempt ==
    /\ q_pc = "loop"
    /\ q_retry_count < MaxRetries
    /\ LET result == ExecuteTask(q_agent[q_calls + 1])
       IN  /\ q_calls' = q_calls + 1
           /\ IF result.exc = ""
              THEN /\ q_result_type' = result.ret
                   /\ q_pc' = "callback"
                   /\ UNCHANGED q_retry_count
              ELSE IF result.exc = "JSONDecodeError" /\ q_retry_count < MaxRetries - 1
              THEN /\ q_retry_count' = q_retry_count + 1
                   /\ UNCHANGED <<q_result_type, q_pc>>
              ELSE /\ q_pc' = "except"
                   /\ UNCHANGED <<q_result_type, q_retry_count>>
    /\ UNCHANGED <<q_agent, q_reported, sp_objs, sp_parts>>
    /\ UNCHANGED <<mvars, wvars>>

\* self.result_callback(...): with result_type after the loop, with "FAILED"
\* in the except clause
QReport ==
    /\ q_pc \in {"callback", "except"}
    /\ q_reported' = IF q_pc = "except" THEN "FAILED" ELSE q_result_type
    /\ q_pc' = "reported"
    /\ UNCHANGED <<q_agent, q_retry_count, q_result_type, q_calls, sp_objs, sp_parts>>
    /\ UNCHANGED <<mvars, wvars>>

QNext ==
    \/ QStart
    \/ QAttempt
    \/ QReport

(***************************************************************************)
(* The fallback splitter on characters.  A text is a sequence of           *)
(* characters: "{", "}", the quote "q" and "c" for any other character.    *)
(***************************************************************************)
StrChars == {"{", "}", "c"}
Strs == UNION {[1..n -> StrChars] : n \in 0..MaxStr}

\* json.dumps of a message whose string value is str; the keys, the colons
\* and the other values, which hold no brace, are left out
JsonDumps(str) == <<"{", "q">> \o str \o <<"q", "}">>

RECURSIVE Concat(_)
\* the objects written back-to-back
Concat(objs) == IF objs = <<>> THEN <<>> ELSE JsonDumps(Head(objs)) \o Concat(Tail(objs))

RECURSIVE SplitChars(_, _, _)
\* the for loop of _split_concatenated_json and the lines after it
SplitChars(data, brace_count, current_json) ==
    IF data = <<>> THEN (IF current_json = <<>> THEN <<>> ELSE <<current_json>>)
    ELSE LET char == Head(data)
             count == CASE char = "{" -> brace_count + 1
                        [] char = "}" -> brace_count - 1
                        [] OTHER -> brace_count
         IN  IF char = "}" /\ count = 0
             THEN <<Append(current_json, char)>> \o SplitChars(Tail(data), 0, <<>>)
             ELSE SplitChars(Tail(data), count, Append(current_json, char))

\* TaskMaster._split_concatenated_json on characters
SplitConcatenatedText(data) == SplitChars(data, 0, <<>>)

\* _parse_json_messages hands a line of objs to the splitter; a line of one
\* object is parsed by json.loads and does not reach it
SplitCall(objs) ==
    /\ sp_objs = <<>>
    /\ sp_objs' = objs
    /\ sp_parts' = SplitConcatenatedText(Concat(objs))
    /\ UNCHANGED <<q_agent, q_pc, q_retry_count, q_result_type, q_calls, q_reported>>
    /\ UNCHANGED <<mvars, wvars>>

SplitNext == \E objs \in UNION {[1..n -> Strs] : n \in 2..MaxObjs} : SplitCall(objs)

(***************************************************************************)
(* The specifications.                                                     *)
(***************************************************************************)
vars == <<mvars, wvars, qvars>>

\* TaskMaster.__init__ and start(): the four directories exist, the task
\* creator has filled pending/, nobody is connected, the timer sleeps.
\* TaskWorker after _initialize: the supervisor runs, JOIN is written and
\* JOIN_ACK read, the main loop is about to start.
Init ==
    /\ tasks_dir = [d \in Dirs |-> IF d = "pending" THEN Files ELSE {}]
    /\ workers = <<>>
    /\ message_queue = <<>>
    /\ running = TRUE
    /\ mpc = "accept"
    /\ conn = [c \in Conns |-> FreeConn]
    /\ monitors = EmptyBag
    /\ disc_threads = EmptyBag
    /\ timer_left = TimerInterval
    /\ w_running = TRUE
    /\ wpc = "top"
    /\ recv_buffer = <<>>
    /\ last_request_time = FALSE
    /\ result_queue = <<>>
    /\ cm_running = TRUE
    /\ cm_message_queue = <<>>
    /\ task_threads = {}
    /\ link = "up"
    /\ unsent = Script
    /\ sent = <<[frame |-> WorkerEncode(Msg("JOIN", WorkerId, "")), req_id |-> ""]>>
    /\ taken = {}
    /\ handed = {}
    /\ outbox = <<>>
    /\ raised = {}
    /\ q_agent = <<>>
    /\ q_pc = "idle"
    /\ q_retry_count = 0
    /\ q_result_type = "FAILED"
    /\ q_calls = 0
    /\ q_reported = ""
    /\ sp_objs = <<>>
    /\ sp_parts = <<>>

\* The Master, beside a Worker that stands still.
Next == MNext
Spec == Init /\ [][Next]_vars

\* The Worker, beside a Master that stands still.
WSpec == Init /\ [][WNext]_vars

\* The Worker's protocol loop while the supervisor is busy (it takes nothing
\* from its queue), with reads that return up to WMaxInbuf messages.
WFrameNext ==
    \/ WLoopTop
    \/ WReceive(WMaxInbuf)
    \/ WProcessClaudeResults
    \/ WSignalHandler
    \/ WCleanup

WFrameSpec == Init /\ [][WFrameNext]_vars

\* One request of the supervisor, beside a Master and a protocol loop that
\* stand still.
QSpec == Init /\ [][QNext]_vars

\* One call of the Master's fallback splitter.
SplitSpec == Init /\ [][SplitNext]_vars

(***************************************************************************)
(* The Master under fair scheduling, with reliable peers: every peer       *)
(* connects, joins under an id of its own, stays, acknowledges every CHECK *)
(* and REQUEST in the main loop's next pass and reports a result in the    *)
(* pass after its REQUEST_ACK; no send and no read fails.                  *)
(***************************************************************************)
LiveRecvData(c) ==
    IF conn[c].st \notin {"registered", "open"} \/ RecordsOf(c) = {} THEN {<<>>}
    ELSE LET worker == workers[CHOOSE w \in RecordsOf(c) : TRUE]
             acks == RequestAcks(worker) \cup CheckAcks(worker)
         IN  IF acks # {} THEN {WorkerEncode(m) : m \in acks}
             ELSE IF conn[c].owes THEN {WorkerEncode(m) : m \in Results}
             ELSE {<<>>}

LiveReceived == {r \in [Conns -> UNION {LiveRecvData(c) : c \in Conns}] :
                    \A c \in Conns : r[c] \in LiveRecvData(c)}

LiveJoinData(c) == {WorkerEncode(Msg("JOIN", IF c = "c1" THEN "55000" ELSE "55001", ""))}

\* One step of TaskMaster._main_loop.  The peers have connected when it
\* first accepts, and a handler thread has registered its worker when the
\* loop comes to assign tasks.
LiveLoop ==
    \/ (\A c \in Conns : conn[c].st # "free") /\ AcceptNewConnections
    \/ ReceiveWorkerMessages(LiveReceived, LiveLimits)
    \/ ProcessInternalMessages({}, LiveLimits)
    \/ (\A c \in Conns : conn[c].st # "handler") /\ ProcessPendingTasks({}, {}, LiveLimits)
    \/ MainLoopExit

\* One step of a peer or of a _handle_new_worker thread.
LiveJoin ==
    \/ \E c \in Conns : PeerConnect(c)
    \/ \E c \in Conns : \E data \in LiveJoinData(c) : JoinRegister(c, data)
    \/ \E c \in Conns : JoinAck(c, FALSE)

\* A sleeping thread wakes.
LiveWake ==
    \/ TimerThread
    \/ \E m \in BagToSet(monitors) : TimeoutMonitor(m)

LiveNext == LiveLoop \/ LiveJoin \/ LiveWake \/ Tick

\* The main loop takes a step: every step of it moves mpc, and no other step
\* does.
LoopMoves ==
    /\ mpc # "exited"
    /\ mpc' \in {"accept", "receive", "internal", "pending", "exited"} \ {mpc}

\* The main loop keeps running until it has left its while loop; it waits
\* only for the peers and the handler threads, which therefore run too.  A
\* sleeping thread wakes when its time has come, though the model lets the
\* clock move only while the main loop is in accept(): strong fairness.  The
\* thread whose time comes first is the one that wakes, so that none of them
\* is passed over.
LiveSpec ==
    /\ Init
    /\ [][LiveNext]_vars
    /\ WF_mpc(LoopMoves)
    /\ SF_vars(LiveWake)

(***************************************************************************)
(* The Master with a peer on connection c1 that can write anything at any  *)
(* time: a result nobody asked for, a frame in two pieces, bytes that are  *)
(* no message.  The peer on c2 keeps to the protocol and stays.  No send   *)
(* and no read of a file fails, except the sends on a socket the Master    *)
(* itself has closed.                                                      *)
(***************************************************************************)
\* A result with a msg of the peer's choosing.
OpenResults == {Msg(t, "b.txt", "") : t \in {"DONE", "FAILED"}}

OpenMsgs(c) ==
    UNION {RequestAcks(workers[w]) \cup CheckAcks(workers[w]) : w \in RecordsOf(c)}
    \cup OpenResults

\* What recv can find on connection c.
OpenData(c) ==
    IF conn[c].st \notin {"registered", "open"} THEN {<<>>}
    ELSE IF c # "c1" THEN PeerData(c, MaxInbuf)
    ELSE IF conn[c].cut # NoMsg THEN {<<>>, <<SecondHalf(conn[c].cut), NL>>}
    ELSE {<<>>, <<Junk, NL>>, <<Value, NL>>, <<Deep, NL>>}
         \cup {WorkerEncode(m) : m \in OpenMsgs(c)}
         \cup {<<FirstHalf(m)>> : m \in OpenMsgs(c)}

OpenReceived == {r \in [Conns -> UNION {OpenData(c) : c \in Conns}] :
                    \A c \in Conns : r[c] \in OpenData(c)}

\* The records whose socket the Master has closed.
ClosedWorkers == {w \in DOMAIN workers : conn[workers[w].socket].st = "closed"}

OpenNext ==
    \/ AcceptNewConnections
    \/ ReceiveWorkerMessages(OpenReceived, Limits)
    \/ ProcessInternalMessages(ClosedWorkers, Limits)
    \/ ProcessPendingTasks(ClosedWorkers, {}, Limits)
    \/ MainLoopExit
    \/ TimerThread
    \/ Tick
    \/ \E c \in Conns : PeerConnect(c)
    \/ \E c \in Conns : JoinAck(c, FALSE)
    \/ \E c \in Conns : \E data \in LiveJoinData(c) : JoinRegister(c, data)
    \/ \E wid \in WorkerIds : DisconnectWorker(wid)
    \/ \E m \in BagToSet(monitors) : TimeoutMonitor(m)

OpenSpec == Init /\ [][OpenNext]_vars

(***************************************************************************)
(* Properties of the Master.                                               *)
(***************************************************************************)
\* The directories that hold file f.
DirsOf(f) == {d \in Dirs : f \in Glob(tasks_dir, d)}

\* C1: in every reachable state of the Master every task file that was put
\* in pending/ is in exactly one of pending/, working/, done/ and failed/.
C1_ExactlyOneDirectory == \A f \in Files : Cardinality(DirsOf(f)) = 1

\* A file is back in pending/ after the disconnect of the worker that had it,
\* while another file has got to done/.
C1_Witness ==
    /\ Glob(tasks_dir, "done") # {}
    /\ \E w \in DOMAIN workers :
        /\ workers[w].status = "exiting"
        /\ workers[w].current_task_file \in Glob(tasks_dir, "pending")

\* The record of w goes to "exiting" (the disconnect handler has run on it)
\* or is gone.
Disconnected(w) == w \in DOMAIN workers' => workers'[w].status = "exiting"

\* C2: when the Master handles the disconnect of a worker whose status is
\* requesting or working with file F, F is afterwards in pending/ (or in
\* done/ or failed/ if its result had been processed).
C2_DisconnectRequeues ==
    [][\A w \in DOMAIN workers :
          (/\ workers[w].status \in {"requesting", "working"}
           /\ workers[w].current_task_file # ""
           /\ w \in DOMAIN workers'
           /\ workers'[w].status = "exiting")
          => workers[w].current_task_file \in
                Glob(tasks_dir', "pending") \cup Glob(tasks_dir', "done")
                \cup Glob(tasks_dir', "failed")]_vars

\* The main loop handles the TIMEOUT_CHECK of an outstanding request of w
\* whose deadline d satisfies Due(d).
ExpiryEvaluated(w, Due(_)) ==
    /\ mpc = "internal"
    /\ mpc' = "pending"
    /\ \E i \in 1..Len(workers[w].request_infos) :
        /\ Due(workers[w].request_infos[i].timeout_time)
        /\ \E k \in 1..Len(message_queue) :
              message_queue[k] = [type |-> "TIMEOUT_CHECK",
                                  msg |-> workers[w].request_infos[i].request_id]

\* C7: when the expiry of an outstanding REQUEST or CHECK is evaluated at
\* exactly its deadline and the ack has not come, the worker is disconnected
\* and its file, if it has one, is put back in pending/.
C7_TimeoutAtDeadline ==
    [][\A w \in DOMAIN workers :
          ExpiryEvaluated(w, LAMBDA d : d = 0)
          => /\ Disconnected(w)
             /\ workers[w].current_task_file # ""
                  => workers[w].current_task_file \in Glob(tasks_dir', "pending")]_vars

\* C8: a worker that was sent the REQUEST for F and died before writing
\* anything is timed out and disconnected, and F is back in pending/ for the
\* next idle worker.
C8_CrashedWorkerRecovered ==
    [][\A w \in DOMAIN workers :
          (/\ workers[w].status = "requesting"
           /\ ExpiryEvaluated(w, LAMBDA d : d < 0))
          => /\ Disconnected(w)
             /\ workers[w].current_task_file \in Glob(tasks_dir', "pending")]_vars

\* C9: when USAGE_LIMITED comes from a worker that is working on F, the
\* Master puts F back from working/ into pending/.
C9_UsageLimitedRequeues ==
    \A w \in DOMAIN workers :
        (/\ workers[w].status = "working"
         /\ conn[workers[w].socket].owes
         /\ workers[w].current_task_file \in Glob(tasks_dir, "working"))
        => workers[w].current_task_file \in
              Glob(HandleWorkerMessage(MState, w, Msg("USAGE_LIMITED", w, "")).tasks_dir,
                   "pending")

\* C10: every message the Master and the Worker write is one JSON object
\* followed by one newline, so that the Worker's reader takes each message of
\* the Master out of its buffer as a line and dispatches it.
IsLine(frame) == Len(frame) = 2 /\ frame[1].tok = "obj" /\ frame[2] = NL

C10_NewlineTerminated ==
    /\ \A c \in Conns :
        conn[c].wire # <<>> => /\ IsLine(conn[c].wire)
                              /\ Dispatched(conn[c].wire) = <<conn[c].wire[1].m>>
    /\ \A j \in 1..Len(sent) : IsLine(sent[j].frame)

\* C5: with finitely many tasks, each of which gets its result reported, the
\* Master under fair scheduling at last sees no file in pending/ and
\* working/ on a timer tick, leaves its main loop and shuts down, pending/
\* and working/ being empty.
C5_EventuallyShutsDown ==
    <>(/\ mpc = "exited"
       /\ Glob(tasks_dir, "pending") = {}
       /\ Glob(tasks_dir, "working") = {})

\* C11: while no worker is connected and pending/ is not empty, the Master
\* stays alive: no step changes any of the four directories (a scheduler pass
\* assigns nothing, no file is lost), and the pass over the internal messages
\* neither ends the main loop on a timer tick nor queues COMPLETED.
C11_NoWorkerKeepsTasks ==
    [][(DOMAIN workers = {} /\ Glob(tasks_dir, "pending") # {})
       => /\ tasks_dir' = tasks_dir
          /\ mpc = "internal"
               => /\ running' = running
                  /\ \A i \in 1..Len(message_queue') :
                        message_queue'[i].type # "COMPLETED"]_vars

\* The main loop has a timer tick to handle, then a scheduler pass to make,
\* with files in pending/ and no worker: one has come and gone, and has
\* left its file in working/.
C11_Witness ==
    /\ mpc = "internal"
    /\ DOMAIN workers = {}
    /\ Glob(tasks_dir, "pending") # {}
    /\ Glob(tasks_dir, "working") # {}
    /\ \E i \in 1..Len(message_queue) : message_queue[i].type = "TIMER"

(***************************************************************************)
(* Properties of the Worker.                                               *)
(***************************************************************************)
\* The places of log where a result of request req_id stands.
ResultsIn(log, req_id) ==
    {k \in 1..Len(log) : log[k].req_id = req_id /\ log[k].type \in ResultTypes}

\* What the worker has written, as [type, req_id].
SentLog == [j \in 1..Len(sent) |->
              [type |-> sent[j].frame[1].m.type, req_id |-> sent[j].req_id]]

\* C3: the worker writes REQUEST_ACK(R) before it writes the result of
\* request R; and when the REQUEST_ACK cannot be sent, the request is not
\* handed to the supervisor and no result of it is reported.
C3_AckBeforeResult ==
    /\ \A j \in 1..Len(SentLog) :
        SentLog[j].type \in ResultTypes
        => \E i \in 1..(j - 1) :
              SentLog[i] = [type |-> "REQUEST_ACK", req_id |-> SentLog[j].req_id]
    /\ \A r \in AllReqIds :
        <<r, "ack">> \in raised => r \notin handed /\ ResultsIn(outbox, r) = {}

\* A result has been written, and the ack of another request could not be.
C3_Witness ==
    /\ \E j \in 1..Len(SentLog) : SentLog[j].type \in ResultTypes
    /\ \E r \in AllReqIds : <<r, "ack">> \in raised

\* C4: a live worker answers every CHECK it is sent with the CHECK_ACK of
\* the same req_id, in the pass of its protocol loop that reads the CHECK,
\* whatever the supervisor is doing.
C4_CheckAnswered ==
    \A data \in taken : \A i \in 1..Len(data) :
        (/\ data[i].tok = "obj"
         /\ data[i].m.type = "CHECK"
         /\ link = "up")
        => \E j \in 1..Len(SentLog) :
              SentLog[j] = [type |-> "CHECK_ACK", req_id |-> data[i].m.req_id]

\* C6: for every request handed to the supervisor at most one result is put
\* on the result queue and at most one is written to the Master, whatever
\* raises on the way.
C6_AtMostOneResult ==
    \A r \in handed :
        /\ Cardinality(ResultsIn(outbox, r)) <= 1
        /\ Cardinality(ResultsIn(SentLog, r)) <= 1

\* The result of a request is written though clearing the context raised,
\* and another request has its result queued though the callback raised.
C6_Witness ==
    /\ \E r \in handed : <<r, "clear">> \in raised /\ ResultsIn(SentLog, r) # {}
    /\ \E r \in handed : <<r, "callback">> \in raised /\ ResultsIn(outbox, r) # {}

\* Two frames, each ended by its newline.
TwoFrames(data) ==
    /\ Len(data) = 4
    /\ data[1].tok = "obj" /\ data[2] = NL
    /\ data[3].tok = "obj" /\ data[4] = NL

\* Every read so far ended with a newline: no read found the piece of an
\* earlier line in the buffer.
ReadsFramed == \A data \in taken : data[Len(data)] = NL

\* The places of CHECK_ACK(req_id) in what the worker has written.
CheckAcksSent(req_id) ==
    {j \in 1..Len(SentLog) : SentLog[j] = [type |-> "CHECK_ACK", req_id |-> req_id]}

\* C12: when two valid messages M1 and M2 arrive newline-terminated and
\* concatenated in one read of a stream framed so far, the Master's reader and
\* the Worker's reader each yield exactly M1, M2 in this order; and when both
\* are CHECKs, a worker whose socket works has written one CHECK_ACK for
\* each, that of M1 before that of M2.
C12_ConcatenatedFramesInOrder ==
    \A data \in taken :
        (TwoFrames(data) /\ ReadsFramed)
        => /\ ParseJsonMessages(data) = <<data[1], data[3]>>
           /\ Dispatched(data) = <<data[1].m, data[3].m>>
           /\ (data[1].m.type = "CHECK" /\ data[3].m.type = "CHECK" /\ link = "up")
                => /\ Cardinality(CheckAcksSent(data[1].m.req_id)) = 1
                   /\ Cardinality(CheckAcksSent(data[3].m.req_id)) = 1
                   /\ \A i \in CheckAcksSent(data[1].m.req_id) :
                         \A j \in CheckAcksSent(data[3].m.req_id) : i < j

\* The worker has read two CHECK frames at once and has answered both.
C12_Witness ==
    /\ ReadsFramed
    /\ link = "up"
    /\ \E data \in taken :
          /\ TwoFrames(data)
          /\ data[1].m.type = "CHECK" /\ data[3].m.type = "CHECK"
          /\ CheckAcksSent(data[1].m.req_id) # {}
          /\ CheckAcksSent(data[3].m.req_id) # {}

(***************************************************************************)
(* Properties of the Master's reader and of its handlers, stated on what   *)
(* they make of the state they are called in.                              *)
(***************************************************************************)
\* recv returns data on connection c and nothing on the others.
Only(c, data) == [k \in Conns |-> IF k = c THEN data ELSE <<>>]

\* The state after _receive_worker_messages has read data from worker w.
AfterRead(w, data) == ReceiveLoop(MState, <<w>>, <<>>, Only(workers[w].socket, data))

\* The connections the Master reads, with a record that is not on its way out.
Live(c, w) ==
    /\ conn[c].st \in {"registered", "open"}
    /\ w \in RecordsOf(c)
    /\ workers[w].status # "exiting"

\* C13: a frame that arrives in two reads is dispatched once, when its
\* newline arrives: after the Master has read the first piece of a message and
\* then reads the rest with the newline, its state is the one handling the
\* message leaves.
C13_SplitFrameDispatchedOnce ==
    \A c \in Conns : \A w \in DOMAIN workers :
        (Live(c, w) /\ conn[c].cut # NoMsg)
        => AfterRead(w, <<SecondHalf(conn[c].cut), NL>>)
             = HandleWorkerMessage(MState, w, conn[c].cut)

\* Frames that are no message: text that is not JSON, and JSON text that is
\* no object.
Malformed == {<<Junk, NL>>, <<Deep, NL>>, <<Value, NL>>}

\* C15: a malformed frame read from a worker is dropped and is not fatal to
\* the connection: the worker is not disconnected, its record and everything
\* else stay as they are, and a valid frame behind it is handled as if the
\* malformed one had not been there.
C15_MalformedFrameDropped ==
    \A c \in Conns : \A w \in DOMAIN workers :
        Live(c, w)
        => \A data \in Malformed :
              /\ AfterRead(w, data) = MState
              /\ \A m \in OpenMsgs(c) :
                    AfterRead(w, data \o WorkerEncode(m)) = HandleWorkerMessage(MState, w, m)

\* The directory _handle_task_completion moves to.
TargetOf(result_type) == IF result_type = "DONE" THEN "done" ELSE "failed"

\* C16: when DONE (FAILED) comes from a worker whose assigned file F is in
\* working/, the Master moves F from working/ to done/ (failed/), sets the
\* worker's status to idle and clears its assigned filename, whatever the msg
\* of the report says; nothing else changes.
C16_CompletionMovesAssignedFile ==
    \A w \in DOMAIN workers :
        LET F == workers[w].current_task_file
        IN  (F # "" /\ F \in Glob(tasks_dir, "working"))
            => \A t \in {"DONE", "FAILED"} : \A name \in Files \cup {""} :
                  HandleWorkerMessage(MState, w, Msg(t, name, ""))
                    = [MState EXCEPT
                         !.tasks_dir = [@ EXCEPT !["working"] = @ \ {F},
                                                 ![TargetOf(t)] = @ \cup {F}],
                         !.workers[w].status = "idle",
                         !.workers[w].current_task_file = ""]

\* Both kinds of report have been handled: a file is in done/, another in
\* failed/, and the workers are idle again with no assigned filename.
C16_Witness ==
    /\ DOMAIN tasks_dir = Dirs
    /\ Glob(tasks_dir, "done") # {}
    /\ Glob(tasks_dir, "failed") # {}
    /\ DOMAIN workers # {}
    /\ \A w \in DOMAIN workers :
          workers[w].status = "idle" /\ workers[w].current_task_file = ""

\* C17: a DONE or FAILED from a worker whose file is not in working/ (it has
\* no assigned filename, or the file was moved already) moves nothing: the
\* four directories are as they were.
C17_MissingFileMovesNothing ==
    \A w \in DOMAIN workers :
        workers[w].current_task_file \notin Glob(tasks_dir, "working")
        => \A t \in {"DONE", "FAILED"} :
              HandleWorkerMessage(MState, w, Msg(t, "", "")).tasks_dir = tasks_dir

\* C18: once the Master has shut down, the file of every record whose status
\* is working is back in pending/ and not left in working/.
C18_ShutdownRequeues ==
    mpc = "exited"
    => \A w \in DOMAIN workers :
          workers[w].status = "working"
          => /\ workers[w].current_task_file \in Glob(tasks_dir, "pending")
             /\ workers[w].current_task_file \notin Glob(tasks_dir, "working")

Min(a, b) == IF a < b THEN a ELSE b

\* The records a scheduler pass has changed, from the state before it to s.
Assigned(s) == {w \in DOMAIN workers : s.workers[w] # workers[w]}

\* C20: a scheduler pass in which nothing fails pairs the pending files with
\* the idle workers one-to-one: exactly min(|pending|, |idle|) files move to
\* working/, as many workers are sent one REQUEST each and take the status
\* requesting, and no two of them have the same file; and when two workers
\* work on the two files and both report DONE, both files are in done/ and
\* failed/ is as it was.
C20_OneToOnePairing ==
    /\ (mpc = "pending" /\ disc_threads = EmptyBag)
        => \A rids \in [WorkerIds -> ReqNums] :
              LET files == GlobList(tasks_dir, "pending")
                  idle == IdleWorkers(workers)
                  s == AssignLoop(MState, files, idle, rids, {}, {})
                  n == Min(Len(files), Len(idle))
              IN  /\ Glob(tasks_dir, "working") \subseteq Glob(s.tasks_dir, "working")
                  /\ Cardinality(Glob(s.tasks_dir, "working") \ Glob(tasks_dir, "working")) = n
                  /\ Cardinality(Glob(tasks_dir, "pending") \ Glob(s.tasks_dir, "pending")) = n
                  /\ Cardinality(Assigned(s)) = n
                  /\ \A w \in Assigned(s) :
                        /\ workers[w].status = "idle"
                        /\ s.workers[w].status = "requesting"
                        /\ Len(s.workers[w].request_infos) = Len(workers[w].request_infos) + 1
                        /\ s.workers[w].current_task_file
                              \in Glob(s.tasks_dir, "working") \ Glob(tasks_dir, "working")
                        /\ s.conn[workers[w].socket].wire
                              = MasterEncode(Msg("REQUEST",
                                                 Contents(s.workers[w].current_task_file),
                                                 s.workers[w].request_infos[
                                                     Len(s.workers[w].request_infos)].request_id))
                  /\ \A w1 \in Assigned(s) : \A w2 \in Assigned(s) \ {w1} :
                        s.workers[w1].current_task_file # s.workers[w2].current_task_file
    /\ \A w1 \in DOMAIN workers : \A w2 \in DOMAIN workers \ {w1} :
          (/\ workers[w1].status = "working" /\ workers[w2].status = "working"
           /\ {workers[w1].current_task_file, workers[w2].current_task_file} = Files
           /\ Glob(tasks_dir, "working") = Files)
          => LET s == HandleWorkerMessage(
                          HandleWorkerMessage(MState, w1, Msg("DONE", "", "")),
                          w2, Msg("DONE", "", ""))
             IN  /\ Glob(s.tasks_dir, "done") = Files
                 /\ Glob(s.tasks_dir, "failed") = Glob(tasks_dir, "failed")

\* One pass has paired the two pending files with the two idle workers, and
\* the REQUESTs are on their way.
C20_Witness ==
    /\ mpc = "accept"
    /\ DOMAIN workers = WorkerIds
    /\ Glob(tasks_dir, "working") = Files
    /\ \A w \in WorkerIds :
          /\ workers[w].status = "requesting"
          /\ workers[w].request_infos # <<>>
          /\ workers[w].request_infos[1].timeout_time = AckTimeout
          /\ conn[workers[w].socket].wire # <<>>
          /\ conn[workers[w].socket].wire[1].m.type = "REQUEST"
    /\ workers["55000"].current_task_file # workers["55001"].current_task_file

\* C21: in every state of the registry, a record's assigned filename is
\* non-empty exactly when its status is requesting or working.
C21_FilenameIffAssigned ==
    \A w \in DOMAIN workers :
        workers[w].current_task_file # ""
        <=> workers[w].status \in {"requesting", "working"}

\* The req_ids the Master can mint.
MintedIds == {TaskId(n) : n \in ReqNums} \cup {CheckId(n) : n \in ReqNums}

\* C22: a REQUEST_ACK or CHECK_ACK whose req_id matches no outstanding
\* request of the worker it comes from is ignored: the record (status,
\* assigned filename, outstanding requests) and everything else stay as they
\* are.
C22_UnknownAckIgnored ==
    \A c \in Conns : \A w \in DOMAIN workers :
        Live(c, w)
        => \A t \in {"REQUEST_ACK", "CHECK_ACK"} :
              \A r \in MintedIds \ InfoIds(workers[w]) :
                  AfterRead(w, WorkerEncode(Msg(t, "", r))) = MState

\* C23: the status exiting is terminal: when a worker's LEAVE is followed in
\* the same read by a DONE, a FAILED or a REQUEST_ACK, the record is exiting
\* after the read, and so is not among the workers the scheduler assigns to.
C23_ExitingIsTerminal ==
    \A c \in Conns : \A w \in DOMAIN workers :
        Live(c, w)
        => \A m \in {Msg("DONE", "", ""), Msg("FAILED", "", ""),
                      Msg("REQUEST_ACK", "", TaskId(RandMin))} :
              LET s == AfterRead(w, WorkerEncode(Msg("LEAVE", "", "")) \o WorkerEncode(m))
              IN  /\ s.workers[w].status = "exiting"
                  /\ \A i \in 1..Len(IdleWorkers(s.workers)) : IdleWorkers(s.workers)[i] # w

C25_FailedSendDisconnects ==
    /\ \A w \in DOMAIN workers : \A n \in ReqNums :
          LET s == HealthCheck(MState, w, n, TRUE)
          IN  /\ s.workers[w].status = "exiting"
              /\ BagIn(w, s.disc_threads)
              /\ (workers[w].status = "working"
                   /\ workers[w].current_task_file \in Glob(tasks_dir, "working"))
                  => workers[w].current_task_file \in Glob(s.tasks_dir, "pending")
    /\ (mpc = "pending" /\ disc_threads = EmptyBag)
       => \A rids \in [WorkerIds -> ReqNums], fails \in SUBSET WorkerIds :
             SendFailures(MState, fails)
             => LET files == GlobList(tasks_dir, "pending")
                    idle == IdleWorkers(workers)
                    s == AssignLoop(MState, files, idle, rids, fails, {})
                IN  \A i \in 1..Min(Len(files), Len(idle)) :
                       (/\ RenameOk(tasks_dir, "pending", "working", files[i])
                        /\ idle[i] \in fails)
                       => /\ s.workers[idle[i]].status = "exiting"
                          /\ BagIn(idle[i], s.disc_threads)

\* The outstanding REQUEST records of a worker record.
RequestRecords(worker) ==
    {i \in 1..Len(worker.request_infos) :
        worker.request_infos[i].request_id \in {TaskId(n) : n \in ReqNums}}

\* C26: every worker has at most one outstanding REQUEST record at any time,
\* in the registry as it is and as a scheduler pass leaves it: a REQUEST goes
\* only to a worker that has no unacknowledged REQUEST.
C26_OneOutstandingRequest ==
    /\ \A w \in DOMAIN workers : Cardinality(RequestRecords(workers[w])) <= 1
    /\ (mpc = "pending" /\ disc_threads = EmptyBag)
       => \A rids \in [WorkerIds -> ReqNums] :
             LET s == AssignLoop(MState, GlobList(tasks_dir, "pending"),
                                 IdleWorkers(workers), rids, {}, {})
             IN  \A w \in DOMAIN s.workers :
                    Cardinality(RequestRecords(s.workers[w])) <= 1

\* C27: a timeout-expiry notification for req_id r disconnects a worker only
\* if r is still outstanding for that worker and its deadline has passed: a
\* record the handler changes held r with a deadline in the past, no file
\* moves unless a record changes, and a notification for a request no worker
\* holds any more (its ack was processed) changes nothing at all.
C27_TimeoutOnlyIfOutstanding ==
    \A r \in MintedIds :
        LET s == HandleTimeoutCheck(MState, r)
            Changed == {w \in DOMAIN workers : s.workers[w] # workers[w]}
        IN  /\ DOMAIN s.workers = DOMAIN workers
            /\ \A w \in Changed :
                  \E i \in 1..Len(workers[w].request_infos) :
                      /\ workers[w].request_infos[i].request_id = r
                      /\ workers[w].request_infos[i].timeout_time < 0
            /\ Changed = {} => s = MState
            /\ (\A w \in DOMAIN workers : r \notin InfoIds(workers[w])) => s = MState

\* The notification for a REQUEST is queued and about to be handled, after
\* the worker's REQUEST_ACK was processed: the worker is working and holds the
\* request no more.
C27_Witness ==
    /\ mpc = "internal"
    /\ \E i \in 1..Len(message_queue) :
          /\ message_queue[i].type = "TIMEOUT_CHECK"
          /\ message_queue[i].msg \in {TaskId(n) : n \in ReqNums}
          /\ \A w \in DOMAIN workers : message_queue[i].msg \notin InfoIds(workers[w])
    /\ \E w \in DOMAIN workers :
          workers[w].status = "working" /\ workers[w].request_infos = <<>>

\* C28: the req_ids of the requests outstanding at one time are distinct,
\* across all workers and both kinds of request.
C28_FreshReqIds ==
    \A w1 \in DOMAIN workers : \A w2 \in DOMAIN workers :
        \A i \in 1..Len(workers[w1].request_infos) :
            \A j \in 1..Len(workers[w2].request_infos) :
                (w1 # w2 \/ i # j)
                => workers[w1].request_infos[i].request_id
                     # workers[w2].request_infos[j].request_id

\* C29: once the running flag is cleared the scheduler accepts no new work:
\* no step taken after that moves a file into working/ or writes a REQUEST.
C29_NoNewWorkAfterShutdown ==
    [][~running
       => /\ Glob(tasks_dir', "working") \subseteq Glob(tasks_dir, "working")
          /\ \A c \in Conns :
                conn'[c].wire # conn[c].wire
                => (conn'[c].wire = <<>> \/ conn'[c].wire[1].m.type # "REQUEST")]_vars

\* The main loop takes a step: it goes from one of its calls to the next.
MainLoopStep == mpc' # mpc

\* C34: the registry and the task directories are mutated by the main loop
\* only: a step that inserts, replaces or deletes a registry entry or moves a
\* task file is a step of the main loop, never one of a helper thread.
C34_MainLoopOnlyMutator ==
    [][(\/ DOMAIN workers' # DOMAIN workers
        \/ \E w \in DOMAIN workers \cap DOMAIN workers' :
              workers'[w].socket # workers[w].socket
        \/ tasks_dir' # tasks_dir)
       => MainLoopStep]_vars

\* C35: done/ and failed/ are absorbing: a file that is in done/ (failed/)
\* is there after every step.
C35_DoneFailedAbsorbing ==
    [][/\ Glob(tasks_dir, "done") \subseteq Glob(tasks_dir', "done")
       /\ Glob(tasks_dir, "failed") \subseteq Glob(tasks_dir', "failed")]_vars

\* Both files have reached a final directory, one after the other, and the
\* Master has gone through its shutdown.
C35_Witness ==
    /\ mpc = "exited"
    /\ DOMAIN tasks_dir = Dirs
    /\ Glob(tasks_dir, "done") \cup Glob(tasks_dir, "failed") = Files
    /\ Glob(tasks_dir, "done") # {}
    /\ Glob(tasks_dir, "failed") # {}

\* The records responsible for file f.
Responsible(f) ==
    {w \in DOMAIN workers : /\ workers[w].current_task_file = f
                            /\ workers[w].status \in {"requesting", "working"}}

\* C36: every file in working/ is the assigned filename of exactly one
\* record of the registry whose status is requesting or working.
C36_WorkingFileHasOwner ==
    \A f \in Glob(tasks_dir, "working") : Cardinality(Responsible(f)) = 1

\* C37: a DONE or FAILED read from a worker moves only a file assigned to
\* that worker: a file that leaves working/ for done/ or failed/ in a step was
\* the assigned filename of a record which that step has set to idle, and no
\* record that stays requesting or working has its file moved.
C37_ReportMovesOwnFile ==
    [][\A f \in Files :
          (/\ f \in Glob(tasks_dir, "working")
           /\ f \in Glob(tasks_dir', "done") \cup Glob(tasks_dir', "failed"))
          => /\ \E w \in DOMAIN workers :
                   /\ workers[w].current_task_file = f
                   /\ w \in DOMAIN workers'
                   /\ workers'[w].current_task_file = ""
             /\ \A w \in DOMAIN workers \cap DOMAIN workers' :
                   (workers'[w].status \in {"requesting", "working"}
                    /\ workers'[w].socket = workers[w].socket)
                   => workers'[w].current_task_file # f]_vars

\* C38: JOIN_ACK is the first frame the Master writes on a connection:
\* while the join handler has registered a worker and not yet written its
\* JOIN_ACK, nothing has been written on the connection.
C38_JoinAckFirst ==
    \A c \in Conns : conn[c].st = "registered" => conn[c].wire = <<>>

\* C39: a DISCONNECT notification removes the record of the disconnected
\* worker only: the socket of a record that is deleted is one a disconnect
\* thread has closed, never that of a worker that joined later under the
\* same worker_id.
C39_DisconnectRemovesOwnRecord ==
    [][\A w \in DOMAIN workers \ DOMAIN workers' :
          conn[workers[w].socket].st = "closed"]_vars

(***************************************************************************)
(* More properties of the Worker.                                          *)
(***************************************************************************)
\* C14: the Worker's reader tolerates the legacy form: when a line of a
\* stream framed so far holds two JSON objects of the Master back to back, the
\* reader dispatches both, in order; for two CHECKs a worker whose socket
\* works has written the CHECK_ACK of the first and then that of the second.
C14_LegacyFormDispatched ==
    \A data \in taken :
        (/\ ReadsFramed
         /\ Len(data) = 3
         /\ data[1].tok = "obj" /\ data[2].tok = "obj" /\ data[3] = NL)
        => /\ Dispatched(data) = <<data[1].m, data[2].m>>
           /\ (data[1].m.type = "CHECK" /\ data[2].m.type = "CHECK" /\ link = "up")
                => /\ CheckAcksSent(data[1].m.req_id) # {}
                   /\ CheckAcksSent(data[2].m.req_id) # {}
                   /\ \A i \in CheckAcksSent(data[1].m.req_id) :
                         \A j \in CheckAcksSent(data[2].m.req_id) : i < j

\* The file the Master moved to working/ for the REQUEST with this req_id.
FileOf(req_id) ==
    CHOOSE f \in Files : Msg("REQUEST", Contents(f), req_id) \in Script

\* C19: the msg of every DONE and FAILED the worker writes is the name of the
\* file the Master moved to working/ for that REQUEST.
C19_ResultNamesTaskFile ==
    \A j \in 1..Len(sent) :
        sent[j].frame[1].m.type \in {"DONE", "FAILED"}
        => sent[j].frame[1].m.msg = FileOf(sent[j].req_id)

\* The Master sends a REQUEST to an idle worker only: between two
\* REQUEST_ACKs the worker has written lies the result of the first request.
OneRequestAtATime ==
    \A j \in 1..Len(sent) : \A k \in (j + 1)..Len(sent) :
        (/\ sent[j].frame[1].m.type = "REQUEST_ACK"
         /\ sent[k].frame[1].m.type = "REQUEST_ACK")
        => \E l \in (j + 1)..(k - 1) :
              /\ sent[l].frame[1].m.type \in ResultTypes
              /\ sent[l].req_id = sent[j].req_id

\* C30: the supervisor executes requests serially: while the Master sends a
\* REQUEST only after the worker has written the result of the one before,
\* at most one task thread, executing a prompt or the /clear after it, is
\* alive.
C30_SerialExecution ==
    OneRequestAtATime => Cardinality(task_threads) <= 1

\* C31: the /clear issued after a request has completed before the prompt
\* of the next request is submitted: while the Master sends a REQUEST only
\* after the result of the one before, no task thread starts to execute a
\* prompt while another thread has its /clear ahead or under way.
C31_ClearBeforeNextPrompt ==
    [][OneRequestAtATime'
       => \A th \in task_threads' \ task_threads :
             th.at = "execute"
             => \A other \in task_threads : other.at \notin {"execute", "clear"}]_vars

(***************************************************************************)
(* Properties of the supervisor's handling of one request (QSpec).         *)
(***************************************************************************)
\* The attempt served a stream that ends by a decode failure.
DecodeFailure(k) == q_agent[k].ending = "decode"
\* The attempt served a stream that ends by the end of the turn, with no
\* usage-limit signal in it.
Succeeds(k) ==
    /\ q_agent[k].ending = "end"
    /\ \A i \in 1..Len(q_agent[k].events) : ~q_agent[k].events[i].limit

\* C32: a request whose event stream hits a decode failure is retried, up to
\* MaxRetries attempts in all, and is reported FAILED for decode failures only
\* when every attempt has failed so; a decode failure in the first attempt
\* followed by a successful second attempt is reported DONE.
C32_DecodeFailureRetried ==
    q_pc = "reported"
    => /\ q_calls <= MaxRetries
       /\ (DecodeFailure(1) /\ Succeeds(2)) => q_reported = "DONE"
       /\ (DecodeFailure(q_calls) /\ q_reported = "FAILED")
            => /\ q_calls = MaxRetries
               /\ \A k \in 1..MaxRetries : DecodeFailure(k)

\* The supervisor has read the stream to its end: it did not leave the loop
\* at an event.
ReadToEnd(stream) == QueryLoop(stream.events, stream.ending) # "break"

\* The classification by priority, of the stream of one attempt.  An agent
\* the supervisor stopped reading has not ended abnormally.
Classify(stream) ==
    IF ReadToEnd(stream) /\ stream.ending # "end" THEN "FAILED"
    ELSE IF \E i \in 1..Len(stream.events) : stream.events[i].limit THEN "USAGE_LIMITED"
    ELSE "DONE"

\* C33: the request is reported FAILED if the agent ended abnormally before
\* the end of the turn, otherwise USAGE_LIMITED if one of the events carried a
\* usage-limit signal, otherwise DONE (of the attempt that decided the report).
C33_ClassificationPriority ==
    q_pc = "reported" => q_reported = Classify(q_agent[q_calls])

(***************************************************************************)
(* Properties of the fallback splitter (SplitSpec).                        *)
(***************************************************************************)
\* C40: for objects written back-to-back without separators the splitter
\* returns the texts of those objects, one element each and in order, also
\* when a string value holds '{' or '}'.
C40_SplitterRecoversObjects ==
    sp_objs # <<>>
    => sp_parts = [i \in 1..Len(sp_objs) |-> JsonDumps(sp_objs[i])]

====
